---- MODULE Spec2Model ----
(***************************************************************************)
(* Position lifecycle and risk governance of the Fibonacci golden-pocket   *)
(* trading bot: LiveFibonacciBot (live_trading_bot.py), SafetyValidator    *)
(* (safety_validator.py), PositionRecovery (position_recovery.py),         *)
(* TradingDecisionLogger (trading_decision_logger.py) and the order        *)
(* placing part of AsterTradingClient (aster_trading_client.py).           *)
(*                                                                         *)
(* Numbers.  Python floats are modelled as exact rationals <<n, d>> with   *)
(* d > 0 and gcd(n, d) = 1, so that clips, averages and divisions are      *)
(* computed as the code computes them, up to floating rounding.  Prices    *)
(* are in thousands of USD (112 stands for $112,000).  None is <<>>.       *)
(***************************************************************************)
EXTENDS Integers, Sequences, FiniteSets, TLC

None == <<>>

(***************************************************************************)
(* Rational arithmetic                                                     *)
(***************************************************************************)
Abs(n) == IF n < 0 THEN -n ELSE n

RECURSIVE GCD(_, _)
GCD(a, b) == IF b = 0 THEN a ELSE GCD(b, a % b)

Rat(n, d) ==
    LET s == IF d < 0 THEN -1 ELSE 1
        g == GCD(Abs(n), Abs(d))
    IN  << (s * n) \div g, (s * d) \div g >>

Zero == << 0, 1 >>
One == << 1, 1 >>

\* Common factors are cancelled before multiplying, to keep the integers small
Mul(a, b) ==
    LET g1 == GCD(Abs(a[1]), b[2])
        g2 == GCD(Abs(b[1]), a[2])
    IN  << (a[1] \div g1) * (b[1] \div g2), (a[2] \div g2) * (b[2] \div g1) >>
Inverse(b) == IF b[1] < 0 THEN << -b[2], -b[1] >> ELSE << b[2], b[1] >>
Div(a, b) == Mul(a, Inverse(b))
Add(a, b) ==
    LET g == GCD(a[2], b[2])
    IN  Rat(a[1] * (b[2] \div g) + b[1] * (a[2] \div g), (a[2] \div g) * b[2])
Neg(a) == << -a[1], a[2] >>
Sub(a, b) == Add(a, Neg(b))
Lt(a, b) ==
    LET g == GCD(a[2], b[2])
    IN  a[1] * (b[2] \div g) < b[1] * (a[2] \div g)
Le(a, b) == ~Lt(b, a)
Gt(a, b) == Lt(b, a)
Ge(a, b) == ~Lt(a, b)
RMin(a, b) == IF Le(a, b) THEN a ELSE b
RMax(a, b) == IF Ge(a, b) THEN a ELSE b
RAbs(a) == << Abs(a[1]), a[2] >>

\* round(x, 3) for x >= 0: the nearest multiple of 1/1000
Round3(x) == Rat((2 * 1000 * x[1] + x[2]) \div (2 * x[2]), 1000)

(***************************************************************************)
(* Configuration                                                           *)
(***************************************************************************)
\* LiveFibonacciBot exposure limits
MAX_NOTIONAL_EXPOSURE == Rat(5, 1)
MAX_CAPITAL_USAGE == Rat(135, 100)

\* SafetyValidator hard limits
Safety_MAX_CAPITAL_USAGE == Rat(94, 100)
MAX_LEVERAGE == Rat(5, 1)
MAX_TOTAL_NOTIONAL == Rat(5, 1)
MIN_POSITION_SIZE == Rat(25, 100)
MAX_POSITION_SIZE == Rat(75, 100)
MAX_ADJUSTMENTS_PER_DAY == 3
MAX_ADD_PER_REVIEW == Rat(5, 100)
MAX_REDUCE_PER_REVIEW == Rat(20, 100)
COOLDOWN_SECONDS == 1800
ENTRY_LEVERAGE == Rat(3, 1)

\* TradingConfig
BASE_POSITION_SIZE == Rat(35, 100)
LEVERAGE_base == Rat(3, 1)
SCALE_LEVELS ==
    << [deviation |-> Rat(-1, 100), add |-> Rat(20, 100), leverage |-> Rat(3, 1)],
       [deviation |-> Rat(-2, 100), add |-> Rat(25, 100), leverage |-> Rat(4, 1)],
       [deviation |-> Rat(-4, 100), add |-> Rat(25, 100), leverage |-> Rat(5, 1)],
       [deviation |-> Rat(-6, 100), add |-> Rat(30, 100), leverage |-> Rat(5, 1)] >>
INVALIDATION_LEVEL == Rat(-40, 100)

\* LiveFibonacciBot.fib_levels, in thousands of USD
h4_gp_top == Rat(112189, 1000)
h4_gp_bottom == Rat(111463, 1000)
h4_fib_50 == Rat(117430, 1000)
h4_swing_high == Rat(126104, 1000)
daily_gp_top == Rat(108975, 1000)
daily_gp_bottom == Rat(108088, 1000)
daily_fib_50 == Rat(112246, 1000)

(***************************************************************************)
(* Python dictionaries are records whose absent keys hold None; Get is     *)
(* dict.get(key, default).  Integers that may be absent are wrapped in a   *)
(* one-element tuple.                                                      *)
(***************************************************************************)
Get(v, default) == IF v = None THEN default ELSE v

(***************************************************************************)
(* LiveFibonacciBot.calculate_sentiment_multiplier                         *)
(***************************************************************************)
fear_greed_multiplier(fg) ==
    IF Lt(fg, Rat(25, 1)) THEN Rat(13, 10)
    ELSE IF Lt(fg, Rat(40, 1)) THEN Rat(11, 10)
    ELSE IF Gt(fg, Rat(75, 1)) THEN Rat(6, 10)
    ELSE One

funding_rate_multiplier(fr) ==
    IF Lt(fr, Rat(-1, 100)) THEN Rat(13, 10)
    ELSE IF Lt(fr, Zero) THEN Rat(11, 10)
    ELSE IF Gt(fr, Rat(5, 100)) THEN Rat(5, 10)
    ELSE IF Gt(fr, Rat(2, 100)) THEN Rat(8, 10)
    ELSE One

ls_ratio_multiplier(ls) ==
    IF Gt(ls, Rat(2, 1)) THEN Rat(8, 10)
    ELSE IF Gt(ls, Rat(15, 10)) THEN One
    ELSE IF Lt(ls, Rat(8, 10)) THEN Rat(12, 10)
    ELSE One

\* A variant whose missing fear_greed reads as 0
calculate_sentiment_multiplier_zero_default(sentiment) ==
    LET sum == Add(Add(fear_greed_multiplier(Get(sentiment.fear_greed, Zero)),
                       funding_rate_multiplier(Get(sentiment.funding_rate, Zero))),
                   ls_ratio_multiplier(Get(sentiment.ls_ratio, One)))
        final_multiplier == Div(sum, Rat(3, 1))
    IN  RMax(Rat(5, 10), RMin(Rat(15, 10), final_multiplier))

\* A key missing from the snapshot holds None
calculate_sentiment_multiplier(sentiment) ==
    LET sum == Add(Add(fear_greed_multiplier(Get(sentiment.fear_greed, Rat(50, 1))),
                       funding_rate_multiplier(Get(sentiment.funding_rate, Zero))),
                   ls_ratio_multiplier(Get(sentiment.ls_ratio, One)))
        final_multiplier == Div(sum, Rat(3, 1))
    IN  RMax(Rat(5, 10), RMin(Rat(15, 10), final_multiplier))

(***************************************************************************)
(* LiveFibonacciBot.check_exposure_limits, as a function of the two state  *)
(* fields it reads (total_position_size, current_leverage)                 *)
(***************************************************************************)
exposure_current_notional(capital_used, cur_leverage) ==
    Mul(capital_used, IF Gt(cur_leverage, Zero) THEN cur_leverage ELSE One)

\* A variant that stops after the capital check
check_exposure_limits_capital_only(desired_size, leverage, capital_used, cur_leverage) ==
    LET total_capital == Add(capital_used, desired_size)
        allowed_capital == Sub(MAX_CAPITAL_USAGE, capital_used)
    IN  IF Gt(total_capital, MAX_CAPITAL_USAGE)
        THEN IF Le(allowed_capital, Zero) THEN Zero ELSE allowed_capital
        ELSE desired_size

check_exposure_limits(desired_size, leverage, capital_used, cur_leverage) ==
    LET current_notional == exposure_current_notional(capital_used, cur_leverage)
        total_capital == Add(capital_used, desired_size)
        allowed_capital == Sub(MAX_CAPITAL_USAGE, capital_used)
        over_capital == Gt(total_capital, MAX_CAPITAL_USAGE)
        clipped == IF over_capital THEN allowed_capital ELSE desired_size
        total_notional == Add(current_notional, Mul(clipped, leverage))
        allowed_notional == Sub(MAX_NOTIONAL_EXPOSURE, current_notional)
    IN  IF over_capital /\ Le(allowed_capital, Zero) THEN Zero
        ELSE IF Gt(total_notional, MAX_NOTIONAL_EXPOSURE)
             THEN IF Le(allowed_notional, Zero) THEN Zero
                  ELSE Div(allowed_notional, leverage)
             ELSE clipped

(***************************************************************************)
(* SafetyValidator                                                         *)
(***************************************************************************)
Verdict(approved, reason, adjusted) ==
    [approved |-> approved, reason |-> reason, adjusted |-> adjusted]

_calculate_current_notional(position) ==
    IF position = None \/ Get(position.size, Zero) = Zero THEN Zero
    ELSE Mul(Get(position.capital_used, Rat(80, 100)), Get(position.leverage, One))

\* A variant that returns the size of the move without its sign
_calculate_roi_unsigned(position, current_price) ==
    IF position = None \/ position.average_price = None \/ position.average_price = Zero
    THEN Zero
    ELSE LET avg_entry == position.average_price
             leverage == Get(position.leverage, One)
             price_change == Div(RAbs(Sub(current_price, avg_entry)), avg_entry)
         IN  Mul(Mul(price_change, leverage), Rat(100, 1))

_calculate_roi(position, current_price) ==
    IF position = None \/ position.average_price = None \/ position.average_price = Zero
    THEN Zero
    ELSE LET avg_entry == position.average_price
             leverage == Get(position.leverage, One)
             price_change == Div(Sub(current_price, avg_entry), avg_entry)
         IN  Mul(Mul(price_change, leverage), Rat(100, 1))

validate_entry(decision, current_position) ==
    LET size == Get(decision.size_or_amount, Zero)
        leverage == ENTRY_LEVERAGE
        current_deployed == IF current_position = None THEN Zero ELSE current_position.size
        total_deployed == Add(current_deployed, size)
        max_allowed == Sub(Safety_MAX_CAPITAL_USAGE, current_deployed)
        current_notional == _calculate_current_notional(current_position)
        total_notional == Add(current_notional, Mul(size, leverage))
        allowed_notional == Sub(MAX_TOTAL_NOTIONAL, current_notional)
    IN  IF Lt(size, MIN_POSITION_SIZE)
        THEN Verdict(FALSE, "below minimum", None)
        ELSE IF Gt(size, MAX_POSITION_SIZE)
        THEN Verdict(TRUE, "capped at maximum", [decision EXCEPT !.size_or_amount = MAX_POSITION_SIZE])
        ELSE IF Gt(total_deployed, Safety_MAX_CAPITAL_USAGE)
        THEN IF Le(max_allowed, Zero)
             THEN Verdict(FALSE, "no capital available", None)
             ELSE Verdict(TRUE, "reduced for liquid reserve", [decision EXCEPT !.size_or_amount = max_allowed])
        ELSE IF Gt(total_notional, MAX_TOTAL_NOTIONAL)
        THEN IF Le(allowed_notional, Zero)
             THEN Verdict(FALSE, "at notional limit", None)
             ELSE Verdict(TRUE, "reduced for notional limit",
                          [decision EXCEPT !.size_or_amount = Div(allowed_notional, leverage)])
        ELSE IF Gt(leverage, MAX_LEVERAGE)
        THEN Verdict(FALSE, "leverage exceeds maximum", None)
        ELSE Verdict(TRUE, "approved", decision)

\* A variant that rejects only once the ledger of the day exceeds the limit
validate_adjustment_limit_exceeded(decision, current_position, current_price, todays_adjustments, now, last_adjustment_time) ==
    LET action == decision.decision
        amount == Get(decision.size_or_amount, Zero)
        time_since_last == now - last_adjustment_time
        new_notional == Mul(amount, Get(current_position.leverage, Rat(4, 1)))
        current_notional == _calculate_current_notional(current_position)
        roi == _calculate_roi(current_position, current_price)
    IN  IF todays_adjustments > MAX_ADJUSTMENTS_PER_DAY
        THEN Verdict(FALSE, "daily limit", None)
        ELSE IF time_since_last < COOLDOWN_SECONDS /\ last_adjustment_time > 0
        THEN Verdict(FALSE, "cooldown", None)
        ELSE IF action = "ADD" /\ Gt(amount, MAX_ADD_PER_REVIEW)
        THEN Verdict(TRUE, "capped at max add", [decision EXCEPT !.size_or_amount = MAX_ADD_PER_REVIEW])
        ELSE IF action = "ADD" /\ Gt(Add(current_notional, new_notional), MAX_TOTAL_NOTIONAL)
        THEN Verdict(FALSE, "would exceed notional limit", None)
        ELSE IF action = "REDUCE" /\ Lt(roi, Zero)
        THEN Verdict(FALSE, "cannot reduce while in loss", None)
        ELSE IF action = "REDUCE" /\ Gt(amount, MAX_REDUCE_PER_REVIEW)
        THEN Verdict(TRUE, "capped at max reduce", [decision EXCEPT !.size_or_amount = MAX_REDUCE_PER_REVIEW])
        ELSE Verdict(TRUE, "adjustment approved", decision)

\* todays_adjustments is len(adjustment_log.get(today, [])); now is time.time()
validate_adjustment(decision, current_position, current_price, todays_adjustments, now, last_adjustment_time) ==
    LET action == decision.decision
        amount == Get(decision.size_or_amount, Zero)
        time_since_last == now - last_adjustment_time
        new_notional == Mul(amount, Get(current_position.leverage, Rat(4, 1)))
        current_notional == _calculate_current_notional(current_position)
        roi == _calculate_roi(current_position, current_price)
    IN  IF todays_adjustments >= MAX_ADJUSTMENTS_PER_DAY
        THEN Verdict(FALSE, "daily limit", None)
        ELSE IF time_since_last < COOLDOWN_SECONDS /\ last_adjustment_time > 0
        THEN Verdict(FALSE, "cooldown", None)
        ELSE IF action = "ADD" /\ Gt(amount, MAX_ADD_PER_REVIEW)
        THEN Verdict(TRUE, "capped at max add", [decision EXCEPT !.size_or_amount = MAX_ADD_PER_REVIEW])
        ELSE IF action = "ADD" /\ Gt(Add(current_notional, new_notional), MAX_TOTAL_NOTIONAL)
        THEN Verdict(FALSE, "would exceed notional limit", None)
        ELSE IF action = "REDUCE" /\ Lt(roi, Zero)
        THEN Verdict(FALSE, "cannot reduce while in loss", None)
        ELSE IF action = "REDUCE" /\ Gt(amount, MAX_REDUCE_PER_REVIEW)
        THEN Verdict(TRUE, "capped at max reduce", [decision EXCEPT !.size_or_amount = MAX_REDUCE_PER_REVIEW])
        ELSE Verdict(TRUE, "adjustment approved", decision)

\* date.today() at the time now (seconds)
today(now) == now \div 86400

\* self.adjustment_log.get(today, []) of the validator V
adjustment_log_get(V, now) ==
    IF today(now) \in DOMAIN V.adjustment_log THEN V.adjustment_log[today(now)] ELSE <<>>

\* A variant that records the adjustment and leaves the cooldown timer alone
log_adjustment_without_timer(V, action, amount, now) ==
    [adjustment_log |-> [d \in DOMAIN V.adjustment_log \cup { today(now) } |->
          IF d = today(now)
          THEN Append(adjustment_log_get(V, now), [action |-> action, amount |-> amount])
          ELSE V.adjustment_log[d]],
     last_adjustment_time |-> V.last_adjustment_time]

\* The validator after log_adjustment(action, amount); the entry's own time
\* stamp, which nothing reads, is left out
log_adjustment(V, action, amount, now) ==
    [adjustment_log |->
         [d \in DOMAIN V.adjustment_log \cup { today(now) } |->
             IF d = today(now)
             THEN Append(adjustment_log_get(V, now), [action |-> action, amount |-> amount])
             ELSE V.adjustment_log[d]],
     last_adjustment_time |-> now]

\* A variant that rejects an exit of exactly 25%
validate_exit_above_minimum(decision) ==
    LET exit_pct == Get(decision.size_or_amount, Zero)
    IN  IF Le(exit_pct, Rat(25, 100)) \/ Gt(exit_pct, One)
        THEN Verdict(FALSE, "outside 25-100% range", None)
        ELSE Verdict(TRUE, "exit approved", decision)

validate_exit(decision) ==
    LET exit_pct == Get(decision.size_or_amount, Zero)
    IN  IF Lt(exit_pct, Rat(25, 100)) \/ Gt(exit_pct, One)
        THEN Verdict(FALSE, "outside 25-100% range", None)
        ELSE Verdict(TRUE, "exit approved", decision)

(***************************************************************************)
(* Program state                                                           *)
(***************************************************************************)
VARIABLES
    bot,            \* LiveFibonacciBot: the orchestrator's fields
    logger,         \* TradingDecisionLogger: current_position (the mirror), decisions
    client,         \* AsterTradingClient of the bot: its locally tracked position
    exchange,       \* the venue: the position it really holds and the leverage set
    state_file,     \* logs/position_state.json
    decision_log,   \* logs/trading_decisions.json
    clock,          \* datetime.now(), advanced by every handler that reads it
    held_notional,  \* history: sum of size x leverage over the fills held at the venue
    cost_basis,     \* history: sum of size x price over the fills in the bot's books,
                    \* None once the books were rebuilt by a recovery
    count,          \* history: entries, exits and restarts so far
    last_op,        \* history: what the last handler did, the order it had filled,
                    \* the approval the SafetyValidator gave it and what
                    \* approve_entry answered it
    probe           \* arguments and result of the last call of a pure operation

vars == << bot, logger, client, exchange, state_file, decision_log, clock,
           held_notional, cost_basis, count, last_op, probe >>

\* Bound of the exploration: the number of handler runs that change the state
MaxSteps == 4

\* Inputs the environment supplies
Prices == { Rat(66, 1), Rat(100, 1), Rat(105, 1), Rat(112, 1), Rat(119, 1), Rat(127, 1) }
Sentiment(fg, fr, ls) == [fear_greed |-> fg, funding_rate |-> fr, ls_ratio |-> ls]
Neutral == Sentiment(Rat(50, 1), Rat(1, 10000), One)
Fear == Sentiment(Rat(10, 1), Rat(-5, 1000), Rat(5, 10))
Greed == Sentiment(Rat(80, 1), Rat(3, 100), One)
Sentiments == { Neutral, Greed }
ApiStates == { "ok", "down" }
\* Whether the files under logs/ can be opened for writing during a cycle
DiskStates == { "ok", "read_only" }
Decision(d, amount) == [decision |-> d, size_or_amount |-> amount]

\* What approve_entry and approve_exit can return: the advisor's JSON object,
\* whose decision and size_or_amount it chooses freely, or the error fallback
\* of ask_for_decision, HOLD without size_or_amount; RAISE stands for an
\* exception
ClaudeEntryDecisions ==
    { Decision("APPROVE", Rat(35, 100)), Decision("APPROVE", Rat(90, 100)),
      Decision("REJECT", None), Decision("HOLD", None), Decision("HOLD", Rat(35, 100)),
      Decision("RAISE", None) }
ClaudeExitDecisions ==
    { Decision("HOLD", None), Decision("APPROVE", One), Decision("APPROVE", Rat(10, 100)) }
\* The advisor's answer in a cycle that does not ask it
NotAsked == Decision("HOLD", None)

\* USD value of the account reported by get_account_info
AccountUsd == Rat(442, 1)

\* The state as one record, threaded through the handlers; ret is the value a
\* handler returns and exc tells that it raised.
State ==
    [bot |-> bot, logger |-> logger, client |-> client, exchange |-> exchange,
     state_file |-> state_file, decision_log |-> decision_log, clock |-> clock,
     held_notional |-> held_notional, cost_basis |-> cost_basis, count |-> count,
     op |-> "none", ret |-> FALSE, exc |-> FALSE, order |-> None, approval |-> None,
     entry_advice |-> "none", log_calls |-> 0, disk |-> "ok"]

Return(S, v) == [S EXCEPT !.ret = v]
Scaled(v, factor) == IF v = None THEN None ELSE Mul(v, factor)
Raise(S) == [S EXCEPT !.exc = TRUE, !.ret = FALSE]

(***************************************************************************)
(* The venue and AsterTradingClient                                        *)
(***************************************************************************)
\* AsterTradingClient.get_current_position: None also when the request fails
get_current_position(S, api) ==
    IF api = "down" \/ S.exchange.position = None THEN None
    ELSE [amount |-> S.exchange.position.amount,
          entry_price |-> S.exchange.position.entry_price,
          leverage |-> S.exchange.leverage]

calculate_position_size(percentage, leverage, current_price, api) ==
    IF api = "down" THEN Zero
    ELSE Round3(Div(Mul(Mul(AccountUsd, percentage), leverage),
                    Mul(current_price, Rat(1000, 1))))

\* A filled BUY of btc_amount for percentage of the capital at leverage
FillBuy(S, btc_amount, percentage, leverage, price) ==
    LET old == S.exchange.position
        new == IF old = None
               THEN [amount |-> btc_amount, entry_price |-> price]
               ELSE [amount |-> Add(old.amount, btc_amount),
                     entry_price |-> Div(Add(Mul(old.amount, old.entry_price),
                                             Mul(btc_amount, price)),
                                         Add(old.amount, btc_amount))]
    IN  [S EXCEPT !.exchange.position = new,
                  !.held_notional = Add(@, Mul(percentage, leverage)),
                  !.order = [side |-> "BUY", size |-> percentage]]

\* A filled reduce-only SELL of close_amount
FillSell(S, close_amount) ==
    LET old == S.exchange.position
        left == Sub(old.amount, close_amount)
    IN  [S EXCEPT !.exchange.position =
                      IF Le(left, Zero) THEN None ELSE [old EXCEPT !.amount = left],
                  !.held_notional =
                      IF Le(left, Zero) THEN Zero ELSE Mul(@, Div(left, old.amount))]

set_leverage(S, leverage, api) ==
    IF api = "down" THEN S ELSE [S EXCEPT !.exchange.leverage = leverage]

enter_long_position(S, percentage, leverage, current_price, api) ==
    LET S1 == set_leverage(S, leverage, api)
        btc_amount == calculate_position_size(percentage, leverage, current_price, api)
    IN  IF Gt(btc_amount, Zero) /\ api = "ok"
        THEN Return([FillBuy(S1, btc_amount, percentage, leverage, current_price)
                        EXCEPT !.client.position =
                            [entry_price |-> current_price, amount |-> btc_amount,
                             leverage |-> leverage]], TRUE)
        ELSE Return(S1, FALSE)

scale_in_position(S, add_percentage, new_leverage, current_price, api) ==
    IF S.client.position = None THEN Raise(S)
    ELSE
    LET S1 == IF new_leverage # S.client.position.leverage
              THEN set_leverage(S, new_leverage, api) ELSE S
        btc_amount == calculate_position_size(add_percentage, new_leverage, current_price, api)
        old == S.client.position
        new_amount == Add(old.amount, btc_amount)
    IN  IF Gt(btc_amount, Zero) /\ api = "ok" /\ new_amount = Zero
        THEN \* ZeroDivisionError in new_price, after the order was filled
             Raise(FillBuy(S1, btc_amount, add_percentage, new_leverage, current_price))
        ELSE IF Gt(btc_amount, Zero) /\ api = "ok"
        THEN Return([FillBuy(S1, btc_amount, add_percentage, new_leverage, current_price)
                        EXCEPT !.client.position =
                            [amount |-> new_amount,
                             entry_price |-> Div(Add(Mul(old.amount, old.entry_price),
                                                     Mul(btc_amount, current_price)),
                                                 new_amount),
                             leverage |-> new_leverage]], TRUE)
        ELSE Return(S1, FALSE)

close_position(S, percentage, api) ==
    LET current_pos == get_current_position(S, api)
        close_amount == Round3(Mul(current_pos.amount, percentage))
        S1 == [FillSell(S, close_amount) EXCEPT !.order = [side |-> "SELL", size |-> percentage]]
    IN  IF current_pos = None THEN Return(S, FALSE)
        ELSE IF api # "ok" \/ close_amount = Zero THEN Return(S, FALSE)
        ELSE IF Ge(percentage, One) THEN Return([S1 EXCEPT !.client.position = None], TRUE)
        ELSE IF S.client.position = None THEN Raise(S1)
        ELSE Return([S1 EXCEPT !.client.position.amount = Sub(@, close_amount)], TRUE)

(***************************************************************************)
(* TradingDecisionLogger                                                   *)
(***************************************************************************)
\* decisions.append(decision); _save_decisions().  disk tells whether the
\* files under logs/ can be opened for writing; when they cannot, open raises
\* and the file stays as it is.
AppendDecision(S, action) ==
    LET decisions == Append(S.logger.decisions, action)
    IN  IF S.disk = "ok"
        THEN [S EXCEPT !.logger.decisions = decisions, !.decision_log = decisions,
                       !.log_calls = @ + 1]
        ELSE Raise([S EXCEPT !.logger.decisions = decisions, !.log_calls = @ + 1])

log_entry_decision(S, price, size, leverage) ==
    LET now == S.clock + 1
        S1 == [S EXCEPT !.clock = now,
                        !.logger.current_position =
                            [status |-> "OPEN", entry_price |-> price, average_price |-> price,
                             size |-> size, leverage |-> leverage,
                             entry_time |-> [kind |-> "str", t |-> now],
                             total_pnl |-> None]]
    IN  AppendDecision(S1, "ENTRY")

log_scale_decision(S, price, add_size, new_leverage) ==
    IF S.logger.current_position = None THEN Raise([S EXCEPT !.log_calls = @ + 1])
    ELSE
    LET old_avg == S.logger.current_position.average_price
        old_size == S.logger.current_position.size
        new_size == Add(old_size, add_size)
        new_avg == Div(Add(Mul(old_size, old_avg), Mul(add_size, price)), new_size)
    IN  IF new_size = Zero THEN Raise([S EXCEPT !.log_calls = @ + 1])
        ELSE AppendDecision([S EXCEPT !.logger.current_position.size = new_size,
                                      !.logger.current_position.average_price = new_avg,
                                      !.logger.current_position.leverage = new_leverage],
                            "SCALE_IN")

log_exit_decision(S, price, exit_size, pnl, exit_type) ==
    IF S.logger.current_position = None THEN Raise([S EXCEPT !.log_calls = @ + 1])
    ELSE IF exit_type = "FULL"
    THEN AppendDecision([S EXCEPT !.logger.current_position = None], "FULL_EXIT")
    ELSE AppendDecision([S EXCEPT !.logger.current_position.size = Sub(@, exit_size),
                                  !.logger.current_position.total_pnl = Add(Get(@, Zero), pnl)],
                        "PARTIAL_EXIT")

(***************************************************************************)
(* PositionRecovery                                                        *)
(***************************************************************************)
\* The file a json.dump that failed half-way leaves behind
CorruptFile == [readable |-> FALSE]

\* json.dump raises on the datetime object enter_position stores in
\* position['entry_time'], after open(..., 'w') truncated the file and a part
\* of the object was written.
save_position_state(S, position_data) ==
    LET now == S.clock + 1
    IN  IF position_data.entry_time.kind = "datetime"
        THEN Raise([S EXCEPT !.clock = now, !.state_file = CorruptFile])
        ELSE [S EXCEPT !.clock = now,
                       !.state_file =
                           [readable |-> TRUE,
                            timestamp |-> [kind |-> "str", t |-> now],
                            position |-> position_data,
                            last_entry_price |-> position_data.entry_price,
                            total_position_size |-> position_data.size,
                            current_leverage |-> position_data.leverage,
                            scale_in_count |-> Get(position_data.scale_in_count, <<0>>)]]

\* A variant that rebuilds the position from the exchange alone and never
\* reads the state file
recover_position_exchange_only(S, api) ==
    LET live_position == get_current_position(S, api)
        now == S.clock + 1
    IN  IF live_position # None
        THEN Return([S EXCEPT !.clock = now],
                    [has_position |-> TRUE,
                     position |-> [entry_price |-> live_position.entry_price,
                                   average_price |-> live_position.entry_price,
                                   size |-> live_position.amount,
                                   leverage |-> live_position.leverage,
                                   entry_time |-> [kind |-> "str", t |-> now],
                                   scale_in_count |-> <<0>>,
                                   capital_used |-> None],
                     last_entry |-> live_position.entry_price])
        ELSE Return([S EXCEPT !.state_file = None],
                    [has_position |-> FALSE, position |-> None, last_entry |-> None])

\* ret is (has_position, recovered_position, last_entry).  A key the JSON
\* object of the state file lacks is None in state_file; a file that cannot be
\* read or parsed leaves saved_state None.  The print of
\* saved_state['timestamp'] is inside the try, after the assignment; the read
\* for entry_time is outside it and raises KeyError when the key is missing.
recover_position(S, api) ==
    LET live_position == get_current_position(S, api)
        now == S.clock + 1
        saved_state == IF S.state_file # None /\ S.state_file.readable
                       THEN S.state_file ELSE None
        \* "if saved_state": an object without any key is false
        given == /\ saved_state # None
                 /\ \E k \in DOMAIN saved_state \ { "readable" } : saved_state[k] # None
        recovered_position ==
            [entry_price |-> live_position.entry_price,
             average_price |->
                 IF given /\ saved_state.position # None
                 THEN Get(saved_state.position.average_price, live_position.entry_price)
                 ELSE live_position.entry_price,
             size |-> live_position.amount,
             leverage |-> live_position.leverage,
             entry_time |-> IF given THEN saved_state.timestamp
                            ELSE [kind |-> "str", t |-> now],
             scale_in_count |-> IF given
                                THEN Get(saved_state.scale_in_count, <<0>>) ELSE <<0>>,
             capital_used |-> None]
        last_entry == IF given THEN saved_state.last_entry_price
                      ELSE live_position.entry_price
    IN  IF live_position # None /\ given /\ saved_state.timestamp = None
        THEN Raise(S)
        ELSE IF live_position # None
        THEN Return([S EXCEPT !.clock = now],
                    [has_position |-> TRUE, position |-> recovered_position,
                     last_entry |-> last_entry])
        ELSE Return([S EXCEPT !.state_file = None],
                    [has_position |-> FALSE, position |-> None, last_entry |-> None])

\* A variant that appends the RECOVERY record and leaves the mirror alone
log_recovery_record_only(S, position_data) ==
    AppendDecision(S, "RECOVERY")

log_recovery(S, position_data) ==
    AppendDecision([S EXCEPT !.logger.current_position =
                       [status |-> "OPEN", entry_price |-> position_data.entry_price,
                        average_price |-> position_data.average_price,
                        size |-> position_data.size, leverage |-> position_data.leverage,
                        entry_time |-> position_data.entry_time, total_pnl |-> None]],
                   "RECOVERY")

(***************************************************************************)
(* LiveFibonacciBot.__init__                                               *)
(***************************************************************************)
NewBot(shadow_mode) ==
    [shadow_mode |-> shadow_mode, position |-> None, last_entry_price |-> None,
     total_position_size |-> Zero, current_leverage |-> Zero, scale_in_count |-> 0,
     highest_price_seen |-> Zero, eager_to_enter |-> TRUE, bounce_detected |-> TRUE,
     fib_partial_exit_taken |-> FALSE, fib_exit_price |-> None,
     remaining_after_fib |-> Zero,
     safety |-> [adjustment_log |-> <<>>, last_adjustment_time |-> 0],
     sentiment_cache |-> [data |-> None, timestamp |-> 0]]

\* A process start: fresh bot, logger and client objects over the files and the
\* venue as they are, then the recovery.
Construct(S, shadow_mode, api) ==
    LET S0 == [S EXCEPT !.bot = NewBot(shadow_mode),
                        !.logger = [current_position |-> None, decisions |-> S.decision_log],
                        !.client = [position |-> None]]
        \* S1 is the state after recover_position, r what it returned
        Restored(S1, r) ==
            [S1 EXCEPT !.bot.position = r.position,
                       !.bot.last_entry_price = r.last_entry,
                       !.bot.total_position_size = r.position.size,
                       !.bot.current_leverage = r.position.leverage,
                       !.bot.scale_in_count = r.position.scale_in_count[1],
                       !.bot.eager_to_enter = FALSE,
                       !.bot.bounce_detected = FALSE]
        Recovered(S1) ==
            IF S1.ret.has_position
            THEN [log_recovery(Restored(S1, S1.ret), S1.ret.position)
                    EXCEPT !.op = "recovered", !.cost_basis = None]
            ELSE [S1 EXCEPT !.op = "fresh"]
    IN  Recovered(recover_position(S0, api))

(***************************************************************************)
(* LiveFibonacciBot: entry                                                 *)
(***************************************************************************)
InZone(price, bottom, top) ==
    /\ Le(Mul(bottom, Rat(995, 1000)), price)
    /\ Le(price, Mul(top, Rat(101, 100)))

Count(conds) == Cardinality({ i \in DOMAIN conds : conds[i] })

\* bounce is what detect_bounce returns (it reads the recent candles).
\* The result is (should_enter, the bot with its Fibonacci tracking reset).
check_entry_conditions(B, current_price, sentiment, bounce) ==
    LET reentry == /\ B.fib_exit_price # None
                   /\ Lt(current_price, B.fib_exit_price)
                   /\ InZone(current_price, h4_gp_bottom, h4_gp_top)
        bounced == B.bounce_detected \/ bounce
        h4_confluence == 1 + Count(<< Lt(sentiment.fear_greed, Rat(40, 1)),
                                      Lt(sentiment.funding_rate, Zero),
                                      Gt(sentiment.ls_ratio, Rat(12, 10)),
                                      bounced >>)
        daily_confluence == 1 + Count(<< Lt(sentiment.fear_greed, Rat(30, 1)),
                                         Lt(sentiment.funding_rate, Rat(-1, 1000)),
                                         bounced >>)
        near_50 == Lt(Div(RAbs(Sub(current_price, h4_fib_50)), current_price),
                      Rat(1, 100))
    IN  IF B.position # None THEN [enter |-> FALSE, bot |-> B]
        ELSE IF reentry
        THEN [enter |-> TRUE,
              bot |-> [B EXCEPT !.fib_exit_price = None, !.fib_partial_exit_taken = FALSE]]
        ELSE IF /\ InZone(current_price, h4_gp_bottom, h4_gp_top)
                /\ (h4_confluence >= 2 \/ B.eager_to_enter)
        THEN [enter |-> TRUE, bot |-> B]
        ELSE IF /\ InZone(current_price, daily_gp_bottom, daily_gp_top)
                /\ daily_confluence >= 2
        THEN [enter |-> TRUE, bot |-> B]
        ELSE IF near_50 /\ bounce
        THEN [enter |-> TRUE, bot |-> B]
        ELSE [enter |-> FALSE, bot |-> B]

\* claude is what approve_entry returns, or the decision RAISE when it raises
enter_position(S, current_price, sentiment, claude, api) ==
    LET algo_proposed_size == Mul(BASE_POSITION_SIZE, calculate_sentiment_multiplier(sentiment))
        leverage == LEVERAGE_base
        claude_decision == IF claude.decision = "RAISE"
                           THEN Decision("APPROVE", algo_proposed_size) ELSE claude
        new_position(final_size, now) ==
            [entry_price |-> current_price, average_price |-> current_price,
             size |-> final_size, leverage |-> leverage,
             entry_time |-> [kind |-> "datetime", t |-> now],
             scale_in_count |-> None, capital_used |-> None]
        \* S2 is the state after log_entry_decision
        Logged(S2, final_size) ==
            IF S2.exc THEN [S2 EXCEPT !.op = "entry_unlogged"]
            ELSE
            save_position_state(
                [S2 EXCEPT !.clock = @ + 1,
                           !.bot.position = new_position(final_size, S2.clock + 1),
                           !.bot.last_entry_price = current_price,
                           !.bot.total_position_size = final_size,
                           !.bot.current_leverage = leverage,
                           !.bot.scale_in_count = 0,
                           !.bot.eager_to_enter = FALSE,
                           !.bot.bounce_detected = FALSE,
                           !.cost_basis = Mul(final_size, current_price),
                           !.count.entries = @ + 1,
                           !.op = "entry"],
                new_position(final_size, S2.clock + 1))
        \* S1 is the state after the order (or its simulation in shadow mode)
        Ordered(S1, final_size) ==
            IF ~S1.ret THEN [S1 EXCEPT !.op = "entry_failed"]
            ELSE Logged(log_entry_decision(S1, current_price, Mul(final_size, Rat(100, 1)),
                                           leverage),
                        final_size)
        Approved(safety_result) ==
            [S EXCEPT !.approval = [side |-> "BUY",
                                    size |-> safety_result.adjusted.size_or_amount]]
        Validated(safety_result) ==
            IF ~safety_result.approved THEN [S EXCEPT !.op = "entry_blocked"]
            ELSE Ordered(IF S.bot.shadow_mode THEN Return(Approved(safety_result), TRUE)
                         ELSE enter_long_position(Approved(safety_result),
                                                  safety_result.adjusted.size_or_amount,
                                                  leverage, current_price, api),
                         safety_result.adjusted.size_or_amount)
    IN  IF claude_decision.decision = "REJECT" THEN [S EXCEPT !.op = "entry_rejected"]
        ELSE Validated(validate_entry(claude_decision, S.bot.position))

(***************************************************************************)
(* LiveFibonacciBot: scale-in                                              *)
(***************************************************************************)
SetMin(set) == CHOOSE i \in set : \A j \in set : i <= j

\* A variant that averages the two prices without their sizes
scale_in_average_unweighted(old_size, old_avg, add_size, price) ==
    Div(Add(old_avg, price), Rat(2, 1))

\* new_avg = (old_size * old_avg + add_size * current_price) / new_size
scale_in_average(old_size, old_avg, add_size, price) ==
    Div(Add(Mul(old_size, old_avg), Mul(add_size, price)), Add(old_size, add_size))

\* check_scale_in without the test i >= self.scale_in_count of line 735
check_scale_in_refill(S, current_price, sentiment, api) ==
    IF S.bot.position = None THEN Return(S, FALSE)
    ELSE IF S.bot.last_entry_price = None THEN Raise(S)
    ELSE
    LET B == S.bot
        deviation == Div(Sub(current_price, B.last_entry_price), B.last_entry_price)
        hit == { i \in DOMAIN SCALE_LEVELS : Le(deviation, SCALE_LEVELS[i].deviation) }
        \* S2 is the state after log_scale_decision
        Logged(S2, i, add_size) ==
            IF S2.exc THEN [S2 EXCEPT !.op = "scale_unlogged"]
            ELSE Return([S2 EXCEPT !.bot.position.average_price =
                                       scale_in_average(B.total_position_size,
                                                        B.position.average_price,
                                                        add_size, current_price),
                                   !.bot.total_position_size = Add(B.total_position_size, add_size),
                                   !.bot.current_leverage = SCALE_LEVELS[i].leverage,
                                   !.bot.scale_in_count = i,
                                   !.cost_basis = IF @ = None THEN None
                                                  ELSE Add(@, Mul(add_size, current_price)),
                                   !.op = "scale_in"], TRUE)
        \* S1 is the state after scale_in_position
        Ordered(S1, i, add_size) ==
            IF S1.exc THEN [S1 EXCEPT !.op = "scale_raised"]
            ELSE IF ~S1.ret THEN Return([S1 EXCEPT !.op = "scale_failed"], FALSE)
            ELSE Logged(log_scale_decision(S1, current_price, Mul(add_size, Rat(100, 1)),
                                           SCALE_LEVELS[i].leverage),
                        i, add_size)
        Sized(i, add_size) ==
            IF add_size = Zero THEN Return([S EXCEPT !.op = "scale_blocked"], FALSE)
            ELSE Ordered(scale_in_position(S, add_size, SCALE_LEVELS[i].leverage,
                                           current_price, api),
                         i, add_size)
        Level(i) ==
            Sized(i, check_exposure_limits(
                         Mul(SCALE_LEVELS[i].add, calculate_sentiment_multiplier(sentiment)),
                         SCALE_LEVELS[i].leverage, B.total_position_size, B.current_leverage))
    IN  IF hit = {} THEN Return(S, FALSE)
        ELSE Level(SetMin(hit))

check_scale_in(S, current_price, sentiment, api) ==
    IF S.bot.position = None THEN Return(S, FALSE)
    ELSE IF S.bot.last_entry_price = None THEN Raise(S)
    ELSE
    LET B == S.bot
        deviation == Div(Sub(current_price, B.last_entry_price), B.last_entry_price)
        hit == { i \in DOMAIN SCALE_LEVELS :
                    /\ Le(deviation, SCALE_LEVELS[i].deviation)
                    /\ i - 1 >= B.scale_in_count }
        \* S2 is the state after log_scale_decision
        Logged(S2, i, add_size) ==
            IF S2.exc THEN [S2 EXCEPT !.op = "scale_unlogged"]
            ELSE Return([S2 EXCEPT !.bot.position.average_price =
                                       scale_in_average(B.total_position_size,
                                                        B.position.average_price,
                                                        add_size, current_price),
                                   !.bot.total_position_size = Add(B.total_position_size, add_size),
                                   !.bot.current_leverage = SCALE_LEVELS[i].leverage,
                                   !.bot.scale_in_count = i,
                                   !.cost_basis = IF @ = None THEN None
                                                  ELSE Add(@, Mul(add_size, current_price)),
                                   !.op = "scale_in"], TRUE)
        \* S1 is the state after scale_in_position
        Ordered(S1, i, add_size) ==
            IF S1.exc THEN [S1 EXCEPT !.op = "scale_raised"]
            ELSE IF ~S1.ret THEN Return([S1 EXCEPT !.op = "scale_failed"], FALSE)
            ELSE Logged(log_scale_decision(S1, current_price, Mul(add_size, Rat(100, 1)),
                                           SCALE_LEVELS[i].leverage),
                        i, add_size)
        Sized(i, add_size) ==
            IF add_size = Zero THEN Return([S EXCEPT !.op = "scale_blocked"], FALSE)
            ELSE Ordered(scale_in_position(S, add_size, SCALE_LEVELS[i].leverage,
                                           current_price, api),
                         i, add_size)
        Level(i) ==
            Sized(i, check_exposure_limits(
                         Mul(SCALE_LEVELS[i].add, calculate_sentiment_multiplier(sentiment)),
                         SCALE_LEVELS[i].leverage, B.total_position_size, B.current_leverage))
    IN  IF hit = {} THEN Return(S, FALSE)
        ELSE Level(SetMin(hit))

(***************************************************************************)
(* LiveFibonacciBot: exits                                                 *)
(***************************************************************************)
calculate_fibonacci_upper_exit(current_price, sentiment) ==
    IF Lt(current_price, daily_fib_50) THEN daily_fib_50
    ELSE IF Lt(current_price, h4_fib_50)
    THEN IF Gt(sentiment.fear_greed, Rat(70, 1)) THEN h4_fib_50
         ELSE Mul(h4_swing_high, Rat(95, 100))
    ELSE IF Gt(sentiment.fear_greed, Rat(75, 1)) \/ Gt(sentiment.funding_rate, Rat(5, 100))
    THEN h4_swing_high
    ELSE Mul(h4_swing_high, Rat(105, 100))

target_multiplier(sentiment) ==
    LET fg == sentiment.fear_greed
        fr == sentiment.funding_rate
    IN  IF Gt(fg, Rat(75, 1)) /\ Gt(fr, Rat(5, 100)) THEN Rat(6, 10)
        ELSE IF Gt(fg, Rat(60, 1)) /\ Gt(fr, Rat(2, 100)) THEN Rat(8, 10)
        ELSE IF Lt(fg, Rat(25, 1)) /\ Lt(fr, Rat(-1, 100)) THEN Rat(15, 10)
        ELSE IF Lt(fg, Rat(40, 1)) THEN Rat(12, 10)
        ELSE One

calculate_exit_targets(sentiment) ==
    LET m == target_multiplier(sentiment)
    IN  << [gain |-> Mul(Rat(5, 100), m), reduce |-> Rat(25, 100)],
           [gain |-> Mul(Rat(10, 100), m), reduce |-> Rat(25, 100)],
           [gain |-> Mul(Rat(15, 100), m), reduce |-> Rat(25, 100)] >>

\* self.position = None; self.total_position_size = 0
Flat(S) == [S EXCEPT !.bot.position = None, !.bot.total_position_size = Zero,
                     !.cost_basis = Zero]

Pnl(S, exit_size, gain) == Mul(Mul(exit_size, S.bot.position.average_price), gain)

\* check_exit from "Check invalidation" on: no order is placed
exit_invalidation(S, current_price, gain) ==
    LET size == S.bot.total_position_size
        Logged(S1) ==
            IF S1.exc THEN [S1 EXCEPT !.op = "invalidation_unlogged"]
            ELSE Return([Flat(S1) EXCEPT !.count.exits = @ + 1,
                                         !.op = "invalidation_exit"], TRUE)
    IN  IF ~Le(gain, INVALIDATION_LEVEL) THEN Return(S, FALSE)
        ELSE Logged(log_exit_decision(S, current_price, Mul(size, Rat(100, 1)),
                                      Pnl(S, size, gain), "FULL"))

\* check_exit from "Check adaptive profit targets" on; when the close fails,
\* "return True, decision" reads a decision that was never bound and raises
exit_profit_targets(S, current_price, gain, adjusted_targets, api) ==
    LET hit == { k \in DOMAIN adjusted_targets : Ge(gain, adjusted_targets[k].gain) }
        target == adjusted_targets[SetMin(hit)]
        exit_size == Mul(target.reduce, S.bot.total_position_size)
        partial == Lt(target.reduce, One)
        Logged(S2) ==
            IF S2.exc THEN [S2 EXCEPT !.op = "target_unlogged", !.count.exits = @ + 1]
            ELSE IF partial
            THEN Return([S2 EXCEPT !.bot.total_position_size = Mul(@, Sub(One, target.reduce)),
                                   !.cost_basis = Scaled(@, Sub(One, target.reduce)),
                                   !.count.exits = @ + 1,
                                   !.op = "target_exit"], TRUE)
            ELSE Return([Flat(S2) EXCEPT !.count.exits = @ + 1, !.op = "target_exit"], TRUE)
        Closed(S1) ==
            IF S1.exc THEN [S1 EXCEPT !.op = "target_raised", !.count.exits = @ + 1]
            ELSE IF ~S1.ret THEN Raise([S1 EXCEPT !.op = "target_failed"])
            ELSE Logged(log_exit_decision(S1, current_price, Mul(exit_size, Rat(100, 1)),
                                          Pnl(S, exit_size, gain),
                                          IF partial THEN "PARTIAL" ELSE "FULL"))
    IN  IF hit = {} THEN exit_invalidation(S, current_price, gain)
        ELSE Closed(close_position(S, target.reduce, api))

\* check_exit from "Update trailing stop" on
exit_trailing_stop(S, current_price, gain, adjusted_targets, api) ==
    LET highest == RMax(current_price, S.bot.highest_price_seen)
        stop == /\ Gt(Mul(gain, S.bot.current_leverage), Rat(10, 100))
                /\ Lt(current_price, Mul(highest, Rat(95, 100)))
        size == S.bot.total_position_size
        Logged(S2) ==
            IF S2.exc THEN [S2 EXCEPT !.op = "trailing_unlogged"]
            ELSE Return([Flat(S2) EXCEPT !.count.exits = @ + 1, !.op = "trailing_exit"], TRUE)
        \* S1 is the state after the close when the stop was hit, else the marked state
        Closed(S1) ==
            IF stop /\ S1.ret
            THEN Logged(log_exit_decision(S1, current_price, Mul(size, Rat(100, 1)),
                                          Pnl(S, size, gain), "FULL"))
            ELSE exit_profit_targets(S1, current_price, gain, adjusted_targets, api)
        Marked(S0) == Closed(IF stop THEN close_position(S0, One, api) ELSE S0)
    IN  Marked([S EXCEPT !.bot.highest_price_seen = highest])

\* check_exit from "Check for Fibonacci rejection" on
exit_fib_rejection(S, current_price, gain, adjusted_targets, api) ==
    LET B == S.bot
        rejected == /\ B.fib_partial_exit_taken
                    /\ B.fib_exit_price # None
                    /\ Le(current_price, Mul(B.fib_exit_price, Rat(98, 100)))
        size == B.total_position_size
        Logged(S2) ==
            IF S2.exc THEN [S2 EXCEPT !.op = "rejection_unlogged"]
            ELSE Return([Flat(S2) EXCEPT !.bot.fib_partial_exit_taken = FALSE,
                                         !.bot.fib_exit_price = None,
                                         !.count.exits = @ + 1,
                                         !.op = "rejection_exit"], TRUE)
        \* S1 is the state after the close when the price was rejected, else S
        Closed(S1) ==
            IF rejected /\ S1.ret
            THEN Logged(log_exit_decision(S1, current_price, Mul(size, Rat(100, 1)),
                                          Pnl(S, size, gain), "FULL"))
            ELSE exit_trailing_stop(S1, current_price, gain, adjusted_targets, api)
    IN  Closed(IF rejected THEN close_position(S, One, api) ELSE S)

\* The condition under which check_exit asks the advisor for an exit size
at_fib_resistance(B, current_price, sentiment) ==
    /\ B.position # None
    /\ Ge(current_price, calculate_fibonacci_upper_exit(current_price, sentiment))
    /\ ~B.fib_partial_exit_taken

\* claude is what approve_exit returns: a decision, whose size_or_amount may be absent
check_exit(S, current_price, sentiment, claude, api) ==
    IF S.bot.position = None THEN Return(S, FALSE)
    ELSE
    LET B == S.bot
        gain == Div(Sub(current_price, B.position.average_price), B.position.average_price)
        adjusted_targets == calculate_exit_targets(sentiment)
        at_resistance == at_fib_resistance(B, current_price, sentiment)
        exit_pct == Get(claude.size_or_amount, Rat(50, 100))
        Logged(S2, final_exit_pct) ==
            IF S2.exc THEN [S2 EXCEPT !.op = "fib_unlogged", !.count.exits = @ + 1]
            ELSE Return([S2 EXCEPT !.bot.total_position_size =
                                       Mul(B.total_position_size, Sub(One, final_exit_pct)),
                                   !.bot.fib_partial_exit_taken = TRUE,
                                   !.bot.fib_exit_price = current_price,
                                   !.bot.remaining_after_fib =
                                       Mul(B.total_position_size, Sub(One, final_exit_pct)),
                                   !.cost_basis = Scaled(@, Sub(One, final_exit_pct)),
                                   !.count.exits = @ + 1,
                                   !.op = "fib_exit"], TRUE)
        \* S1 is the state after the close (or its simulation in shadow mode) at
        \* the resistance, else S
        Closed(S1, final_exit_pct) ==
            IF at_resistance /\ S1.exc
            THEN [S1 EXCEPT !.op = "fib_raised", !.count.exits = @ + 1]
            ELSE IF at_resistance /\ S1.ret
            THEN Logged(log_exit_decision(
                            S1, current_price, Mul(final_exit_pct, Rat(100, 1)),
                            Pnl(S, Mul(final_exit_pct, B.total_position_size), gain),
                            IF Lt(final_exit_pct, One) THEN "PARTIAL" ELSE "FULL"),
                        final_exit_pct)
            ELSE exit_fib_rejection(S1, current_price, gain, adjusted_targets, api)
        Approved(safety_result) ==
            [S EXCEPT !.approval = [side |-> "SELL",
                                    size |-> safety_result.adjusted.size_or_amount]]
        Validated(safety_result) ==
            IF at_resistance /\ ~safety_result.approved
            THEN Return([S EXCEPT !.op = "exit_blocked"], FALSE)
            ELSE Closed(IF ~at_resistance THEN S
                        ELSE IF B.shadow_mode THEN Return(Approved(safety_result), TRUE)
                        ELSE close_position(Approved(safety_result),
                                            safety_result.adjusted.size_or_amount, api),
                        IF at_resistance THEN safety_result.adjusted.size_or_amount
                        ELSE Zero)
    IN  Validated(validate_exit([size_or_amount |-> exit_pct]))

(***************************************************************************)
(* LiveFibonacciBot.run_cycle: any exception ends the cycle and leaves the *)
(* state as it was when it was raised                                      *)
(***************************************************************************)
run_cycle_flat(S, current_price, sentiment, bounce, claude, api) ==
    LET Checked(c) ==
            IF c.enter
            THEN enter_position([S EXCEPT !.bot = c.bot], current_price, sentiment, claude, api)
            ELSE [S EXCEPT !.bot = c.bot, !.op = "waiting"]
    IN  Checked(check_entry_conditions(S.bot, current_price, sentiment, bounce))

\* The held branch without the test of should_exit (line 1084)
run_cycle_manage_scale_always(S, current_price, sentiment, claude, api) ==
    LET Exited(S1) ==
            IF S1.exc THEN S1
            ELSE check_scale_in(S1, current_price, sentiment, api)
    IN  Exited(check_exit(S, current_price, sentiment, claude, api))

\* The 20-minute review at the head of this branch (lines 1040-1079) places no
\* order: it only writes the validator's ledger and last_review_time, which no
\* other part of the cycle reads; its validate_adjustment is called on drawn
\* arguments in SpecAdjustment.
run_cycle_manage(S, current_price, sentiment, claude, api) ==
    LET Exited(S1) ==
            IF S1.exc \/ S1.ret THEN S1
            ELSE check_scale_in(S1, current_price, sentiment, api)
    IN  Exited(check_exit(S, current_price, sentiment, claude, api))

(***************************************************************************)
(* Initial states: the bot as constructed over a clean account, or over a  *)
(* position and state file left by a previous session (an entry of 35% at  *)
(* 112 and one scale-in of 20% at 109, both at 3x).                        *)
(***************************************************************************)
FreshEnvironment ==
    [bot |-> NewBot(FALSE), logger |-> [current_position |-> None, decisions |-> <<>>],
     client |-> [position |-> None],
     exchange |-> [position |-> None, leverage |-> One],
     state_file |-> None, decision_log |-> <<>>, clock |-> 0,
     held_notional |-> Zero, cost_basis |-> Zero,
     count |-> [entries |-> 0, exits |-> 0, restarts |-> 0, steps |-> 0],
     op |-> "none", ret |-> FALSE, exc |-> FALSE, order |-> None, approval |-> None,
     entry_advice |-> "none", log_calls |-> 0, disk |-> "ok"]

PreviousSession ==
    LET saved == [entry_price |-> Rat(112, 1), average_price |-> Rat(1220, 11),
                  size |-> Rat(6, 1000), leverage |-> Rat(3, 1),
                  entry_time |-> [kind |-> "str", t |-> 0],
                  scale_in_count |-> <<1>>, capital_used |-> None]
    IN  [FreshEnvironment EXCEPT
            !.exchange = [position |-> [amount |-> Rat(6, 1000), entry_price |-> Rat(111, 1)],
                          leverage |-> Rat(3, 1)],
            !.state_file = [readable |-> TRUE, timestamp |-> [kind |-> "str", t |-> 0],
                            position |-> saved, last_entry_price |-> saved.entry_price,
                            total_position_size |-> saved.size,
                            current_leverage |-> saved.leverage,
                            scale_in_count |-> saved.scale_in_count],
            !.decision_log = << "ENTRY", "SCALE_IN" >>,
            !.held_notional = Rat(165, 100)]

ProgramIs(S) ==
    /\ bot = S.bot
    /\ logger = S.logger
    /\ client = S.client
    /\ exchange = S.exchange
    /\ state_file = S.state_file
    /\ decision_log = S.decision_log
    /\ clock = S.clock
    /\ held_notional = S.held_notional
    /\ cost_basis = S.cost_basis
    /\ count = S.count
    /\ last_op = [op |-> S.op, exc |-> S.exc, order |-> S.order, approval |-> S.approval,
                  entry_advice |-> S.entry_advice, log_calls |-> S.log_calls]

Init ==
    /\ \E shadow_mode \in BOOLEAN, environment \in { FreshEnvironment, PreviousSession } :
          ProgramIs(Construct(environment, shadow_mode, "ok"))
    /\ probe = None

\* The program's part of a state record
Program(S) ==
    << S.bot, S.logger, S.client, S.exchange, S.state_file, S.decision_log, S.clock >>

\* The handler's result becomes the next state.  A run that changes nothing in
\* the program is a stuttering step; every other run counts as a step.
Commit(S) ==
    LET changed == Program(S) # Program(State)
    IN  /\ bot' = S.bot
        /\ logger' = S.logger
        /\ client' = S.client
        /\ exchange' = S.exchange
        /\ state_file' = S.state_file
        /\ decision_log' = S.decision_log
        /\ clock' = S.clock
        /\ held_notional' = S.held_notional
        /\ cost_basis' = IF changed THEN S.cost_basis ELSE cost_basis
        /\ count' = IF changed THEN [S.count EXCEPT !.steps = @ + 1] ELSE count
        /\ last_op' = IF changed
                       THEN [op |-> S.op, exc |-> S.exc, order |-> S.order,
                             approval |-> S.approval, entry_advice |-> S.entry_advice,
                             log_calls |-> S.log_calls]
                       ELSE last_op
        /\ UNCHANGED probe

\* One cycle of the main loop while flat; the advisor and the venue are only
\* consulted by a cycle that enters.  disks are the states the files under
\* logs/ can be in during the cycle.
RunCycleFlatOn(disks) ==
    /\ count.steps < MaxSteps
    /\ bot.position = None
    /\ \E current_price \in Prices, sentiment \in Sentiments, bounce \in BOOLEAN :
          LET asked == check_entry_conditions(bot, current_price, sentiment, bounce).enter
          IN  \E claude \in IF asked THEN ClaudeEntryDecisions ELSE { NotAsked },
                 api \in IF asked THEN ApiStates ELSE { "ok" },
                 disk \in IF asked THEN disks ELSE { "ok" } :
                 \E S \in { run_cycle_flat([State EXCEPT !.disk = disk], current_price,
                                           sentiment, bounce, claude, api) } :
                     Commit([S EXCEPT !.entry_advice = IF asked THEN claude.decision
                                                       ELSE "none"])

RunCycleFlat == RunCycleFlatOn({ "ok" })

\* A cycle that would call enter_position on a held position, as run_cycle
\* would without the test of line 1026
RunCycleEnterHeldOn(disks) ==
    /\ count.steps < MaxSteps
    /\ bot.position # None
    /\ \E current_price \in Prices, sentiment \in Sentiments, api \in ApiStates,
          disk \in disks, claude \in ClaudeEntryDecisions :
          \E S \in { enter_position([State EXCEPT !.disk = disk], current_price,
                                    sentiment, claude, api) } :
              Commit([S EXCEPT !.entry_advice = claude.decision])

\* One cycle of the main loop while a position is held; the advisor is only
\* asked at a Fibonacci resistance
RunCycleManageOn(disks) ==
    /\ count.steps < MaxSteps
    /\ bot.position # None
    /\ \E current_price \in Prices, sentiment \in Sentiments, api \in ApiStates,
          disk \in disks :
          \E claude \in IF at_fib_resistance(bot, current_price, sentiment)
                         THEN ClaudeExitDecisions ELSE { NotAsked } :
              \E S \in { run_cycle_manage([State EXCEPT !.disk = disk], current_price,
                                          sentiment, claude, api) } :
                  Commit(S)

RunCycleManage == RunCycleManageOn({ "ok" })

\* The process is stopped between two cycles and started again; the position
\* query of the recovery may fail
Restart ==
    /\ count.steps < MaxSteps
    /\ \E api \in ApiStates :
          \E S \in { Construct([State EXCEPT !.count.restarts = @ + 1], bot.shadow_mode, api) } :
              Commit(S)

Next == RunCycleFlat \/ RunCycleManage \/ Restart

Spec == Init /\ [][Next]_vars

\* The same program with cycles during which the files under logs/ cannot be
\* opened for writing (the process starts while they can)
SpecUnwritable ==
    Init /\ [][RunCycleFlatOn(DiskStates) \/ RunCycleManageOn(DiskStates) \/ Restart]_vars

(***************************************************************************)
(* Calls of the pure operations on drawn arguments.  The program stays as  *)
(* constructed over a clean account; probe holds the arguments and, once   *)
(* the call was made, its result.                                          *)
(***************************************************************************)
program_vars == << bot, logger, client, exchange, state_file, decision_log, clock,
                   held_notional, cost_basis, count, last_op >>

\* Bounds of the argument grids: sizes in twentieths, entries in the ledger
MaxTwentieths == 30
MaxLedger == 4

ProbeSizes == { Rat(k, 20) : k \in 0..MaxTwentieths }
ProbeLeverages == { Rat(1, 1), Rat(3, 1), Rat(4, 1), Rat(5, 1) }

Call(name, args) == [call |-> name, args |-> args, result |-> None]
Called == probe # None /\ probe.result # None

\* check_exposure_limits(desired_size, leverage) over the bot's
\* total_position_size and current_leverage
InitExposure ==
    /\ ProgramIs(Construct(FreshEnvironment, FALSE, "ok"))
    /\ \E desired_size \in ProbeSizes \ { Zero }, leverage \in ProbeLeverages,
          total_position_size \in ProbeSizes, current_leverage \in ProbeLeverages \cup { Zero } :
          probe = Call("check_exposure_limits",
                       [desired_size |-> desired_size, leverage |-> leverage,
                        total_position_size |-> total_position_size,
                        current_leverage |-> current_leverage])

CallCheckExposureLimits ==
    /\ probe.result = None
    /\ probe' = [probe EXCEPT !.result =
                    check_exposure_limits(probe.args.desired_size, probe.args.leverage,
                                          probe.args.total_position_size,
                                          probe.args.current_leverage)]
    /\ UNCHANGED program_vars

NextExposure == CallCheckExposureLimits

SpecExposure == InitExposure /\ [][NextExposure]_vars

\* validate_entry(decision, current_position, account_info)
ProbePositions ==
    { [size |-> size, leverage |-> leverage, capital_used |-> capital_used,
       average_price |-> Rat(112, 1)] :
        size \in ProbeSizes \ { Zero }, leverage \in { Rat(3, 1), Rat(4, 1), Rat(5, 1) },
        capital_used \in { None, Rat(50, 100) } }

InitEntry ==
    /\ ProgramIs(Construct(FreshEnvironment, FALSE, "ok"))
    /\ \E size \in ProbeSizes, current_position \in ProbePositions \cup { None } :
          probe = Call("validate_entry",
                       [decision |-> Decision("APPROVE", size),
                        current_position |-> current_position])

CallValidateEntry ==
    /\ probe.result = None
    /\ probe' = [probe EXCEPT !.result =
                    validate_entry(probe.args.decision, probe.args.current_position)]
    /\ UNCHANGED program_vars

NextEntry == CallValidateEntry

SpecEntry == InitEntry /\ [][NextEntry]_vars

\* validate_adjustment(decision, current_position, current_price) over the
\* validator's ledger of today and its last_adjustment_time
AdjustmentPositions ==
    { [size |-> Rat(50, 100), leverage |-> leverage, capital_used |-> None,
       average_price |-> average_price] :
        leverage \in { Rat(1, 1), Rat(3, 1), Rat(5, 1), Rat(6, 1) },
        average_price \in { Rat(100, 1), Rat(112, 1) } }
AdjustmentAmounts == { None, Zero, Rat(5, 100), Rat(10, 100), Rat(20, 100), Rat(30, 100) }
AdjustmentPrices == { Rat(90, 1), Rat(100, 1), Rat(111, 1), Rat(112, 1), Rat(119, 1) }
AdjustmentTimes == { [last |-> 0, now |-> 1000], [last |-> 1000, now |-> 1600],
                     [last |-> 1000, now |-> 2800], [last |-> 1000, now |-> 90000] }

InitAdjustment ==
    /\ ProgramIs(Construct(FreshEnvironment, FALSE, "ok"))
    /\ \E action \in { "ADD", "REDUCE" }, amount \in AdjustmentAmounts,
          current_position \in AdjustmentPositions, current_price \in AdjustmentPrices,
          todays_adjustments \in 0..MaxLedger, time \in AdjustmentTimes :
          probe = Call("validate_adjustment",
                       [decision |-> Decision(action, amount),
                        current_position |-> current_position,
                        current_price |-> current_price,
                        todays_adjustments |-> todays_adjustments,
                        now |-> time.now, last_adjustment_time |-> time.last])

CallValidateAdjustment ==
    /\ probe.result = None
    /\ probe' = [probe EXCEPT !.result =
                    validate_adjustment(probe.args.decision, probe.args.current_position,
                                        probe.args.current_price,
                                        probe.args.todays_adjustments,
                                        probe.args.now, probe.args.last_adjustment_time)]
    /\ UNCHANGED program_vars

NextAdjustment == CallValidateAdjustment

SpecAdjustment == InitAdjustment /\ [][NextAdjustment]_vars

\* ClaudeSupervisor.ask_for_decision(trigger_type, context, question).  The
\* context is one build_context made (numbers and strings only), so the
\* json.dumps of the prompt succeeds.  call is the outcome of
\* client.messages.create and of reading response.content[0].text, text the
\* response as a sequence of tokens, log the outcome of the write to
\* logs/claude_decisions.json.
AdvisorDecision(d, amount, confidence) ==
    [decision |-> d, size_or_amount |-> amount, confidence |-> confidence]

\* Response texts: a JSON value bare, in a json fence, in a plain fence, in a
\* fence that is never closed, or after prose; and texts without any JSON
AdvisorResponses ==
    LET FenceJson == [kind |-> "fence_json"]
        Fence == [kind |-> "fence"]
        Prose == [kind |-> "prose"]
        JsonValue(type, value) == [kind |-> "json", type |-> type, value |-> value]
        values ==
            { JsonValue("object", AdvisorDecision("APPROVE", Rat(35, 100), Rat(85, 100))),
              JsonValue("object", AdvisorDecision("REJECT", None, Rat(9, 10))),
              JsonValue("object", AdvisorDecision("ADD", Rat(5, 100), Rat(6, 10))),
              JsonValue("array", None) }
    IN  UNION { { << v >>, << FenceJson, v, Fence >>,
                  << Prose, FenceJson, v, Fence, Prose >>,
                  << Fence, v, Fence >>, << FenceJson, v >>, << Prose, v >> } : v \in values }
            \cup { << Prose >>, << FenceJson, Prose, Fence >> }

\* The "safe default" of the except branch
Fallback == AdvisorDecision("HOLD", None, Zero)

\* The try block up to json.loads: (raised, decision)
parse_response(call, text) ==
    LET \* text.find(kind in kinds, from): the first index >= from, 0 when absent
        Find(kinds, from) ==
            LET at == { i \in from..Len(text) : text[i].kind \in kinds }
            IN  IF at = {} THEN 0 ELSE CHOOSE i \in at : \A j \in at : i <= j
        opening == IF Find({ "fence_json" }, 1) # 0 THEN Find({ "fence_json" }, 1)
                   ELSE Find({ "fence" }, 1)
        closing == Find({ "fence_json", "fence" }, opening + 1)
        \* response_text[json_start:json_end]; with no closing fence json_end
        \* is -1 and the slice loses the last character of the text
        truncated == opening # 0 /\ closing = 0
        response_text == IF opening = 0 THEN text
                         ELSE IF closing = 0 THEN SubSeq(text, opening + 1, Len(text))
                         ELSE SubSeq(text, opening + 1, closing - 1)
        valid == /\ Len(response_text) = 1
                 /\ response_text[1].kind = "json"
                 /\ ~truncated
    IN  IF call # "ok" \/ ~valid THEN [raised |-> TRUE, decision |-> None]
        ELSE [raised |-> FALSE, decision |-> response_text[1]]

\* _log_decision raises when the file cannot be written and, in its last
\* line, when the parsed value has no get
_log_decision(trigger, decision, log) ==
    log # "ok" \/ decision.type # "object"

\* A variant that logs the interaction after the try block
ask_for_decision_log_unguarded(trigger_type, call, text, log) ==
    LET parsed == parse_response(call, text)
    IN  IF parsed.raised THEN [raised |-> FALSE, decision |-> Fallback]
        ELSE IF _log_decision(trigger_type, parsed.decision, log)
        THEN [raised |-> TRUE, decision |-> None]
        ELSE [raised |-> FALSE, decision |-> parsed.decision.value]

ask_for_decision(trigger_type, call, text, log) ==
    LET parsed == parse_response(call, text)
    IN  IF parsed.raised \/ _log_decision(trigger_type, parsed.decision, log)
        THEN [raised |-> FALSE, decision |-> Fallback]
        ELSE [raised |-> FALSE, decision |-> parsed.decision.value]

InitAdvisor ==
    /\ ProgramIs(Construct(FreshEnvironment, FALSE, "ok"))
    /\ \E trigger_type \in { "ENTRY", "EXIT", "REVIEW" },
          call \in { "ok", "api_error", "empty_content" },
          text \in AdvisorResponses, log \in { "ok", "io_error" } :
          probe = Call("ask_for_decision",
                       [trigger_type |-> trigger_type, call |-> call, text |-> text,
                        log |-> log])

CallAskForDecision ==
    /\ probe.result = None
    /\ probe' = [probe EXCEPT !.result =
                    ask_for_decision(probe.args.trigger_type, probe.args.call,
                                     probe.args.text, probe.args.log)]
    /\ UNCHANGED program_vars

NextAdvisor == CallAskForDecision

SpecAdvisor == InitAdvisor /\ [][NextAdvisor]_vars

\* recover_position() at a start of the process, over what logs/ holds (no
\* state file, one that cannot be parsed, or a JSON object with some of the
\* keys save_position_state writes) and what the venue reports
RecoveryFiles ==
    LET saved == [entry_price |-> Rat(112, 1), average_price |-> Rat(1220, 11),
                  size |-> Rat(6, 1000), leverage |-> Rat(3, 1),
                  entry_time |-> [kind |-> "str", t |-> 0],
                  scale_in_count |-> <<1>>, capital_used |-> None]
    IN  { None,
          [readable |-> FALSE, timestamp |-> None, position |-> None,
           last_entry_price |-> None, total_position_size |-> None,
           current_leverage |-> None, scale_in_count |-> None] }
        \cup
        { [readable |-> TRUE, timestamp |-> timestamp, position |-> position,
           last_entry_price |-> last_entry_price,
           total_position_size |-> IF position = None THEN None ELSE position.size,
           current_leverage |-> IF position = None THEN None ELSE position.leverage,
           scale_in_count |-> scale_in_count] :
            timestamp \in { None, [kind |-> "str", t |-> 0] },
            position \in { None, saved, [saved EXCEPT !.average_price = None] },
            last_entry_price \in { None, Rat(112, 1) },
            scale_in_count \in { None, <<1>> } }

RecoveryVenues ==
    { [position |-> None, leverage |-> One],
      [position |-> [amount |-> Rat(6, 1000), entry_price |-> Rat(111, 1)],
       leverage |-> Rat(3, 1)],
      [position |-> [amount |-> Rat(3, 1000), entry_price |-> Rat(100, 1)],
       leverage |-> Rat(4, 1)] }

InitRecovery ==
    /\ ProgramIs(Construct(FreshEnvironment, FALSE, "ok"))
    /\ \E file \in RecoveryFiles, venue \in RecoveryVenues, api \in ApiStates :
          probe = Call("recover_position",
                       [state_file |-> file, exchange |-> venue, api |-> api])

CallRecoverPosition ==
    /\ probe.result = None
    /\ \E S \in { recover_position([State EXCEPT !.state_file = probe.args.state_file,
                                                   !.exchange = probe.args.exchange],
                                     probe.args.api) } :
          probe' = [probe EXCEPT !.result = [raised |-> S.exc, ret |-> S.ret,
                                             state_file |-> S.state_file]]
    /\ UNCHANGED program_vars

SpecRecovery == InitRecovery /\ [][CallRecoverPosition]_vars

\* Sequences of validate_adjustment and log_adjustment calls on the bot's
\* validator, log_adjustment being called once after each approved ADD or
\* REDUCE verdict and before the next validation.  clock counts the moments
\* at which calls are made, five a day: 00:00, 00:15, 08:00, 16:00 and 23:45,
\* so that two calls can be less than the cooldown apart within a date and
\* across midnight, and four calls of a date can each be a cooldown apart.
MaxPeriods == 9

time_time ==
    86400 * (1 + clock \div 5)
       + CASE clock % 5 = 0 -> 0
           [] clock % 5 = 1 -> 900
           [] clock % 5 = 2 -> 28800
           [] clock % 5 = 3 -> 57600
           [] OTHER -> 85500

InitLedger ==
    /\ ProgramIs(Construct(FreshEnvironment, FALSE, "ok"))
    /\ probe = None

AwaitsLog ==
    /\ probe # None
    /\ probe.result.approved
    /\ probe.args.decision.decision \in { "ADD", "REDUCE" }
    /\ ~probe.logged

ValidateAdjustment ==
    /\ ~AwaitsLog
    /\ \E decision \in { Decision("ADD", Rat(10, 100)), Decision("REDUCE", Rat(10, 100)),
                         Decision("HOLD", Zero) } :
          LET args == [decision |-> decision,
                       current_position |-> [size |-> Rat(50, 100), leverage |-> Rat(3, 1),
                                             capital_used |-> None,
                                             average_price |-> Rat(100, 1)],
                       current_price |-> Rat(112, 1),
                       todays_adjustments |-> Len(adjustment_log_get(bot.safety, time_time)),
                       now |-> time_time,
                       last_adjustment_time |-> bot.safety.last_adjustment_time]
          IN  probe' = [call |-> "validate_adjustment", args |-> args,
                        result |-> validate_adjustment(args.decision, args.current_position,
                                                       args.current_price,
                                                       args.todays_adjustments, args.now,
                                                       args.last_adjustment_time),
                        logged |-> FALSE,
                        last_log |-> IF probe = None THEN None ELSE probe.last_log]
    /\ UNCHANGED << bot, logger, client, exchange, state_file, decision_log, clock,
                    held_notional, cost_basis, count, last_op >>

LogAdjustment ==
    /\ AwaitsLog
    /\ bot' = [bot EXCEPT !.safety = log_adjustment(@, probe.result.adjusted.decision,
                                                    probe.result.adjusted.size_or_amount,
                                                    time_time)]
    /\ probe' = [probe EXCEPT !.logged = TRUE, !.last_log = << time_time >>]
    /\ UNCHANGED << logger, client, exchange, state_file, decision_log, clock,
                    held_notional, cost_basis, count, last_op >>

Tick ==
    /\ clock < MaxPeriods
    /\ clock' = clock + 1
    /\ UNCHANGED << bot, logger, client, exchange, state_file, decision_log,
                    held_notional, cost_basis, count, last_op, probe >>

NextLedger == ValidateAdjustment \/ LogAdjustment \/ Tick

SpecLedger == InitLedger /\ [][NextLedger]_vars

\* calculate_sentiment_multiplier(sentiment) over snapshots with any subset of
\* the three keys missing and values on both sides of every threshold
InitSentiment ==
    /\ ProgramIs(Construct(FreshEnvironment, FALSE, "ok"))
    /\ \E fear_greed \in { None, Rat(10, 1), Rat(24, 1), Rat(25, 1), Rat(39, 1), Rat(40, 1),
                            Rat(50, 1), Rat(75, 1), Rat(76, 1), Rat(90, 1) },
          funding_rate \in { None, Rat(-2, 100), Rat(-1, 100), Rat(-5, 1000), Zero,
                              Rat(1, 10000), Rat(2, 100), Rat(3, 100), Rat(5, 100),
                              Rat(6, 100) },
          ls_ratio \in { None, Rat(5, 10), Rat(8, 10), One, Rat(15, 10), Rat(17, 10),
                          Rat(2, 1), Rat(25, 10) } :
          probe = Call("calculate_sentiment_multiplier",
                       [sentiment |-> [fear_greed |-> fear_greed,
                                       funding_rate |-> funding_rate,
                                       ls_ratio |-> ls_ratio]])

CallSentimentMultiplier ==
    /\ probe.result = None
    /\ probe' = [probe EXCEPT !.result = calculate_sentiment_multiplier(probe.args.sentiment)]
    /\ UNCHANGED program_vars

SpecSentiment == InitSentiment /\ [][CallSentimentMultiplier]_vars

\* validate_exit(decision, current_position) with the validator in any state
\* of its ledger and cooldown timer; a proposal without size_or_amount holds
\* None.  The method reads neither current_position nor self.
InitExit ==
    /\ ProgramIs(Construct(FreshEnvironment, FALSE, "ok"))
    /\ \E action \in { "APPROVE", "HOLD" },
          amount \in { None, Rat(-25, 100), Zero, Rat(24, 100), Rat(25, 100), Rat(26, 100),
                        Rat(50, 100), One, Rat(101, 100), Rat(150, 100) },
          current_position \in AdjustmentPositions,
          todays_adjustments \in 0..MaxLedger, time \in AdjustmentTimes :
          probe = Call("validate_exit",
                       [decision |-> Decision(action, amount),
                        current_position |-> current_position,
                        todays_adjustments |-> todays_adjustments,
                        now |-> time.now, last_adjustment_time |-> time.last])

CallValidateExit ==
    /\ probe.result = None
    /\ probe' = [probe EXCEPT !.result = validate_exit(probe.args.decision)]
    /\ UNCHANGED program_vars

SpecExit == InitExit /\ [][CallValidateExit]_vars

\* LiveFibonacciBot.get_sentiment_data at the time now.  A snapshot is the
\* dictionary of the three readings, a key that was not set holding None;
\* responses tells, for each of the three requests, whether the provider
\* answered with data, answered without data (the key is not set), or the
\* request raised (the key gets its default).  The result is the cache after
\* the call, the snapshot returned and the number of requests made.
SENTIMENT_CACHE_TTL == 300

get_sentiment_data(sentiment_cache, now, responses) ==
    LET cache_age == now - sentiment_cache.timestamp
        \* the truth value of self.sentiment_cache['data']: None and {} are false
        has_data == /\ sentiment_cache.data # None
                    /\ sentiment_cache.data # Sentiment(None, None, None)
        reading(response, default) ==
            IF response.kind = "data" THEN response.value
            ELSE IF response.kind = "error" THEN default
            ELSE None
        sentiment == Sentiment(reading(responses.fear_greed, Rat(50, 1)),
                               reading(responses.funding_rate, Rat(1, 10000)),
                               reading(responses.ls_ratio, One))
    IN  IF cache_age < SENTIMENT_CACHE_TTL /\ has_data
        THEN [cache |-> sentiment_cache, result |-> sentiment_cache.data, requests |-> 0]
        ELSE [cache |-> [data |-> sentiment, timestamp |-> now],
              result |-> sentiment, requests |-> 3]

\* Calls of get_sentiment_data on a fresh bot while time passes in steps of
\* 150 seconds; probe holds the last call with the cache it found.
InitCache ==
    /\ ProgramIs(Construct(FreshEnvironment, FALSE, "ok"))
    /\ probe = None

CallGetSentimentData ==
    /\ \E fear_greed \in { [kind |-> "data", value |-> Rat(20, 1)],
                            [kind |-> "data", value |-> Rat(80, 1)],
                            [kind |-> "no_data"], [kind |-> "error"] },
          funding_rate \in { [kind |-> "data", value |-> Rat(3, 100)], [kind |-> "no_data"] },
          ls_ratio \in { [kind |-> "data", value |-> Rat(25, 10)], [kind |-> "no_data"] } :
          LET now == 86400 + 150 * clock
              r == get_sentiment_data(bot.sentiment_cache, now,
                                      [fear_greed |-> fear_greed,
                                       funding_rate |-> funding_rate,
                                       ls_ratio |-> ls_ratio])
          IN  /\ bot' = [bot EXCEPT !.sentiment_cache = r.cache]
              /\ probe' = [call |-> "get_sentiment_data",
                           args |-> [now |-> now, sentiment_cache |-> bot.sentiment_cache],
                           result |-> [sentiment |-> r.result, requests |-> r.requests]]
    /\ UNCHANGED << logger, client, exchange, state_file, decision_log, clock,
                    held_notional, cost_basis, count, last_op >>

SpecCache == InitCache /\ [][CallGetSentimentData \/ Tick]_vars

(***************************************************************************)
(* Properties                                                              *)
(***************************************************************************)

\* C1: after any sequence of entries and scale-ins, with exits and a restart
\* in between, the sum over the fills still held of fill size x the leverage
\* the fill was opened with never exceeds MAX_TOTAL_NOTIONAL (5.0).
C1_AggregateNotional == Le(held_notional, MAX_TOTAL_NOTIONAL)

\* C2: for desired size > 0 and leverage > 0, check_exposure_limits returns
\* min(desired, MAX_CAPITAL_USAGE - capital used, (MAX_NOTIONAL_EXPOSURE -
\* current notional) / leverage) when both headrooms are positive and 0
\* otherwise, so the result keeps both caps at once and is the largest such
\* size not above the desired one.
C2_ExposureMin ==
    Called =>
        LET a == probe.args
            r == probe.result
            current_notional == exposure_current_notional(a.total_position_size,
                                                          a.current_leverage)
            capital_headroom == Sub(MAX_CAPITAL_USAGE, a.total_position_size)
            notional_headroom == Sub(MAX_NOTIONAL_EXPOSURE, current_notional)
            fits(x) == /\ Le(Add(a.total_position_size, x), MAX_CAPITAL_USAGE)
                       /\ Le(Add(current_notional, Mul(x, a.leverage)), MAX_NOTIONAL_EXPOSURE)
        IN  IF Gt(capital_headroom, Zero) /\ Gt(notional_headroom, Zero)
            THEN /\ r = RMin(a.desired_size,
                             RMin(capital_headroom, Div(notional_headroom, a.leverage)))
                 /\ fits(r)
                 /\ \A x \in ProbeSizes : (Le(x, a.desired_size) /\ fits(x)) => Le(x, r)
            ELSE r = Zero

C2_Witness ==
    /\ Called
    /\ Gt(Add(probe.args.total_position_size, probe.args.desired_size), MAX_CAPITAL_USAGE)
    /\ Lt(probe.result, Sub(MAX_CAPITAL_USAGE, probe.args.total_position_size))
    /\ Gt(probe.result, Zero)

\* C3: whenever validate_entry approves, the returned size s satisfies
\* 0.25 <= s <= 0.75, current size + s <= 0.94 and current notional +
\* s x entry leverage <= 5.0, all at once.
C3_EntryWithinAllLimits ==
    (Called /\ probe.result.approved) =>
        LET current_position == probe.args.current_position
            s == probe.result.adjusted.size_or_amount
            current_size == IF current_position = None THEN Zero ELSE current_position.size
        IN  /\ Le(MIN_POSITION_SIZE, s)
            /\ Le(s, MAX_POSITION_SIZE)
            /\ Le(Add(current_size, s), Safety_MAX_CAPITAL_USAGE)
            /\ Le(Add(_calculate_current_notional(current_position), Mul(s, ENTRY_LEVERAGE)),
                  MAX_TOTAL_NOTIONAL)

\* C4: whenever the orchestrator holds a position its size is > 0 and
\* <= MAX_POSITION_SIZE (0.75); with size 0 there is no position.
C4_PositionSize ==
    bot.position # None =>
        /\ Gt(bot.total_position_size, Zero)
        /\ Le(bot.total_position_size, MAX_POSITION_SIZE)

\* C5: for a position with average_price > 0 and leverage > 0 and a current
\* price below average_price, validate_adjustment rejects every REDUCE,
\* whatever the amount, the ledger of the day and the cooldown timer.
C5_LossLock ==
    (/\ Called
     /\ probe.args.decision.decision = "REDUCE"
     /\ Lt(probe.args.current_price, probe.args.current_position.average_price))
        => ~probe.result.approved

C5_Witness ==
    /\ Called
    /\ probe.args.decision.decision = "REDUCE"
    /\ Lt(probe.args.current_price, probe.args.current_position.average_price)
    /\ probe.args.todays_adjustments < MAX_ADJUSTMENTS_PER_DAY
    /\ probe.args.now - probe.args.last_adjustment_time >= COOLDOWN_SECONDS
    /\ probe.result.reason = "cannot reduce while in loss"

\* C6: after an entry and N >= 1 executed scale-ins, the orchestrator's
\* average_price times its total size equals the sum of size x price over
\* the fills in its books.
C6_AveragePrice ==
    (bot.position # None /\ cost_basis # None /\ bot.scale_in_count >= 1) =>
        Mul(bot.position.average_price, bot.total_position_size) = cost_basis

C6_Witness ==
    /\ bot.position # None
    /\ cost_basis # None
    /\ last_op.op = "scale_in"
    /\ bot.scale_in_count >= 2
    /\ Gt(bot.position.average_price, Rat(105, 1))
    /\ Lt(bot.position.average_price, bot.position.entry_price)

\* C7: at the end of a recovery that found a position at the exchange, the
\* logger's mirror is non-null, its entry_price, average_price, size and
\* leverage are those of the recovered position, and the next
\* log_scale_decision or log_exit_decision does not raise and appends a record.
C7_RecoveryMirror ==
    last_op.op = "recovered" =>
        /\ logger.current_position # None
        /\ logger.current_position.entry_price = bot.position.entry_price
        /\ logger.current_position.average_price = bot.position.average_price
        /\ logger.current_position.size = bot.position.size
        /\ logger.current_position.leverage = bot.position.leverage
        /\ \A S \in { log_scale_decision(State, Rat(105, 1), Rat(20, 1), Rat(3, 1)),
                      log_exit_decision(State, Rat(119, 1), Rat(25, 1), Zero, "PARTIAL"),
                      log_exit_decision(State, Rat(119, 1), Rat(100, 1), Zero, "FULL") } :
              /\ ~S.exc
              /\ Len(S.decision_log) = Len(decision_log) + 1

C7_Witness ==
    /\ last_op.op = "recovered"
    /\ count.entries >= 1
    /\ logger.current_position # None
    /\ bot.position # None

\* C8: at the end of every cycle the logger's mirror is null exactly when
\* the orchestrator's position is null.
C8_MirrorNullIffFlat == (logger.current_position = None) <=> (bot.position = None)

\* C9: while both exist, the mirror's average_price equals the
\* orchestrator's, the mirror's size is 100 x total_position_size, and the
\* mirror's size is never negative.
C9_MirrorTracksPosition ==
    (bot.position # None /\ logger.current_position # None) =>
        /\ logger.current_position.average_price = bot.position.average_price
        /\ logger.current_position.size = Mul(Rat(100, 1), bot.total_position_size)
        /\ Ge(logger.current_position.size, Zero)

\* C10: a recovery that directly follows a recovery, with the same exchange
\* position and no trade in between, yields the same reconciled position
\* (entry_time included) and last-entry price and leaves the state file as
\* it was.
C10_SecondRecovery ==
    (/\ last_op.op = "recovered"
     /\ last_op'.op = "recovered"
     /\ count'.restarts = count.restarts + 1)
        => /\ bot'.position = bot.position
           /\ bot'.last_entry_price = bot.last_entry_price
           /\ state_file' = state_file

C10_RepeatedRecovery == [][C10_SecondRecovery]_vars

\* C11: a recovery that found a position at the exchange takes entry_price,
\* size and leverage from the exchange; it takes average_price and
\* scale_in_count from the state file when a readable one holds them, and
\* with no state file average_price is the exchange's entry price and
\* scale_in_count is 0.
C11_Reconciled ==
    last_op.op = "recovered" =>
        /\ bot.position.entry_price = exchange.position.entry_price
        /\ bot.position.size = exchange.position.amount
        /\ bot.position.leverage = exchange.leverage
        /\ (state_file # None /\ state_file.readable) =>
              /\ bot.position.average_price = state_file.position.average_price
              /\ bot.position.scale_in_count = state_file.scale_in_count
              /\ bot.scale_in_count = state_file.scale_in_count[1]
        /\ state_file = None =>
              /\ bot.position.average_price = exchange.position.entry_price
              /\ bot.position.scale_in_count = <<0>>
              /\ bot.scale_in_count = 0

C11_Witness ==
    /\ last_op.op = "recovered"
    /\ count.restarts >= 1
    /\ state_file # None
    /\ state_file.readable
    /\ bot.position.average_price # exchange.position.entry_price
    /\ bot.scale_in_count = 1

\* C12: a recovery deletes the state file and starts flat exactly when the
\* exchange holds no position; a recovery whose position query failed does
\* neither, and the cycle after a recovery never opens an entry on top of a
\* position the exchange still holds.
C12_Step ==
    /\ count'.restarts = count.restarts + 1 =>
          /\ (last_op'.op = "fresh") <=> (exchange.position = None)
          /\ (state_file # None /\ state_file' = None) => exchange.position = None
    /\ (/\ last_op.op = "fresh"
        /\ count'.entries = count.entries + 1
        /\ exchange'.position # exchange.position) => exchange.position = None

C12_FailedQuery == [][C12_Step]_vars

\* C13: at the end of a cycle that entered, scaled in or took a partial exit,
\* the state file is readable and its size, average price, leverage and
\* scale_in_count are those of the position in memory.
C13_PersistedAfterMutation ==
    (/\ last_op.op \in { "entry", "scale_in", "fib_exit", "target_exit" }
     /\ bot.position # None)
        => /\ state_file # None
           /\ state_file.readable
           /\ state_file.total_position_size = bot.total_position_size
           /\ state_file.position.average_price = bot.position.average_price
           /\ state_file.current_leverage = bot.current_leverage
           /\ state_file.scale_in_count = << bot.scale_in_count >>

\* C14: a restart at a cycle boundary with the position still open recovers
\* the scale_in_count and the average_price the orchestrator had before it.
C14_Step ==
    (/\ count'.restarts = count.restarts + 1
     /\ last_op'.op = "recovered"
     /\ bot.position # None)
        => /\ bot'.scale_in_count = bot.scale_in_count
           /\ bot'.position.average_price = bot.position.average_price

C14_RestartKeepsScaleIns == [][C14_Step]_vars

\* C15: every order a cycle had filled at the exchange (entry, scale-in,
\* partial or full exit) was approved, with that side and size, by the
\* SafetyValidator earlier in the same cycle.
C15_OrdersValidated ==
    last_op.order # None =>
        /\ last_op.approval # None
        /\ last_op.approval = last_op.order

\* C16: a cycle that had no order filled at the exchange (and, in shadow
\* mode, simulated none as filled) leaves the orchestrator's position,
\* total_position_size and scale_in_count and the logger's mirror as they were.
C16_Step ==
    (/\ count'.restarts = count.restarts
     /\ last_op'.order = None
     /\ ~(bot.shadow_mode /\ last_op'.approval # None))
        => /\ bot'.position = bot.position
           /\ bot'.total_position_size = bot.total_position_size
           /\ bot'.scale_in_count = bot.scale_in_count
           /\ logger'.current_position = logger.current_position

C16_NoChangeWithoutOrder == [][C16_Step]_vars

\* C17: with shadow_mode = TRUE no cycle has an order filled at the exchange
\* by enter_long_position, scale_in_position or close_position.
C17_ShadowNoOrders == bot.shadow_mode => last_op.order = None

\* C18: ask_for_decision never raises, and whenever the advisor call fails,
\* the response holds no JSON to parse, or logging the interaction fails, it
\* returns decision = HOLD with confidence = 0, for every trigger type.
C18_NeverRaises ==
    Called =>
        /\ ~probe.result.raised
        /\ (\/ probe.args.call # "ok"
            \/ probe.args.log # "ok"
            \/ \A i \in DOMAIN probe.args.text : probe.args.text[i].kind # "json")
              => /\ probe.result.decision.decision = "HOLD"
                 /\ probe.result.decision.confidence = Zero

C18_Witness ==
    /\ Called
    /\ probe.args.call = "ok"
    /\ probe.args.log = "io_error"
    /\ \E i \in DOMAIN probe.args.text :
          /\ probe.args.text[i].kind = "json"
          /\ probe.args.text[i].type = "object"
    /\ probe.result.decision = Fallback

\* C19: in a cycle whose approve_entry answered HOLD or REJECT, whatever
\* size_or_amount came with it, no order is filled and the orchestrator
\* stays flat.
C19_HoldMeansNoEntry ==
    last_op.entry_advice \in { "HOLD", "REJECT" } =>
        /\ last_op.order = None
        /\ bot.position = None

\* C20: when log_adjustment is called once after each approved ADD or REDUCE
\* verdict, no date ever has more than MAX_ADJUSTMENTS_PER_DAY (3) recorded
\* adjustments; with three recorded for today every validate_adjustment is
\* rejected, and on a date without a record none is rejected for the daily
\* limit.
C20_DailyLimit ==
    /\ \A d \in DOMAIN bot.safety.adjustment_log :
          Len(bot.safety.adjustment_log[d]) <= MAX_ADJUSTMENTS_PER_DAY
    /\ (Called /\ ~probe.logged) =>
          LET recorded == adjustment_log_get(bot.safety, probe.args.now)
          IN  /\ Len(recorded) >= MAX_ADJUSTMENTS_PER_DAY => ~probe.result.approved
              /\ Len(recorded) = 0 => probe.result.reason # "daily limit"

C20_Witness ==
    /\ Called
    /\ ~probe.logged
    /\ probe.result.reason = "daily limit"
    /\ \E d \in DOMAIN bot.safety.adjustment_log :
          /\ d < today(probe.args.now)
          /\ Len(bot.safety.adjustment_log[d]) = MAX_ADJUSTMENTS_PER_DAY
    /\ Len(adjustment_log_get(bot.safety, probe.args.now)) = MAX_ADJUSTMENTS_PER_DAY

\* C21: a validate_adjustment made less than COOLDOWN_SECONDS (1800) after
\* the most recent log_adjustment is rejected, whatever the action and also
\* when midnight lies between the two; a validate_adjustment made before any
\* log_adjustment is never rejected by the cooldown.
C21_Cooldown ==
    (Called /\ ~probe.logged) =>
       /\ (probe.last_log # None /\ probe.args.now - probe.last_log[1] < COOLDOWN_SECONDS)
             => ~probe.result.approved
       /\ probe.last_log = None => probe.result.reason # "cooldown"

C21_Witness ==
    /\ Called
    /\ ~probe.logged
    /\ probe.last_log # None
    /\ probe.args.now - probe.last_log[1] < COOLDOWN_SECONDS
    /\ today(probe.last_log[1]) < today(probe.args.now)
    /\ probe.args.decision.decision = "HOLD"
    /\ probe.result.reason = "cooldown"

\* C22: whenever validate_adjustment approves an ADD, the returned amount a
\* satisfies a <= MAX_ADD_PER_REVIEW (0.05) and current notional + a x the
\* position's leverage <= MAX_TOTAL_NOTIONAL (5.0); a proposal above 0.05 is
\* not approved at 0.05 when the clipped amount would exceed the notional cap.
C22_AddWithinLimits ==
    (Called /\ probe.args.decision.decision = "ADD" /\ probe.result.approved) =>
        LET current_position == probe.args.current_position
            a == Get(probe.result.adjusted.size_or_amount, Zero)
        IN  /\ Le(a, MAX_ADD_PER_REVIEW)
            /\ Le(Add(_calculate_current_notional(current_position),
                      Mul(a, Get(current_position.leverage, Rat(4, 1)))),
                  MAX_TOTAL_NOTIONAL)

\* C23: after every executed scale-in the orchestrator's current_leverage and
\* the leverage of the logger's mirror equal the capital-weighted leverage
\* (old leverage x old size + new leverage x added size) / (old size + added
\* size), and not merely the leverage of the latest fill.
C23_Step ==
    (count'.steps = count.steps + 1 /\ last_op'.op = "scale_in") =>
        LET add_size == Sub(bot'.total_position_size, bot.total_position_size)
            new_leverage == SCALE_LEVELS[bot'.scale_in_count].leverage
            weighted == Div(Add(Mul(bot.current_leverage, bot.total_position_size),
                                Mul(new_leverage, add_size)),
                            bot'.total_position_size)
        IN  /\ bot'.current_leverage = weighted
            /\ logger'.current_position.leverage = weighted

C23_WeightedLeverage == [][C23_Step]_vars

\* C24: after any sequence of executed entries and scale-ins the deployed
\* capital fraction total_position_size never exceeds the SafetyValidator's
\* MAX_CAPITAL_USAGE (0.94), so the 6% liquid reserve stays undeployed.
C24_LiquidReserve == Le(bot.total_position_size, Safety_MAX_CAPITAL_USAGE)

\* C25: for every sentiment snapshot, a missing field reading as its neutral
\* value (fear_greed 50, funding_rate 0, ls_ratio 1.0),
\* calculate_sentiment_multiplier returns the unweighted mean of the three
\* sub-multipliers of the threshold tables, clamped to [0.5, 1.5]; the result
\* lies in [0.5, 1.5] and is 1.0 for an empty snapshot.
C25_SentimentMean ==
    Called =>
        LET sentiment == probe.args.sentiment
            fg == IF sentiment.fear_greed = None THEN Rat(50, 1) ELSE sentiment.fear_greed
            fr == IF sentiment.funding_rate = None THEN Zero ELSE sentiment.funding_rate
            ls == IF sentiment.ls_ratio = None THEN One ELSE sentiment.ls_ratio
            m_fg == CASE Lt(fg, Rat(25, 1)) -> Rat(13, 10)
                      [] Ge(fg, Rat(25, 1)) /\ Lt(fg, Rat(40, 1)) -> Rat(11, 10)
                      [] Gt(fg, Rat(75, 1)) -> Rat(6, 10)
                      [] OTHER -> One
            m_fr == CASE Lt(fr, Rat(-1, 100)) -> Rat(13, 10)
                      [] Ge(fr, Rat(-1, 100)) /\ Lt(fr, Zero) -> Rat(11, 10)
                      [] Gt(fr, Rat(5, 100)) -> Rat(5, 10)
                      [] Gt(fr, Rat(2, 100)) /\ Le(fr, Rat(5, 100)) -> Rat(8, 10)
                      [] OTHER -> One
            m_ls == CASE Gt(ls, Rat(2, 1)) -> Rat(8, 10)
                      [] Lt(ls, Rat(8, 10)) -> Rat(12, 10)
                      [] OTHER -> One
            mean == Div(Add(Add(m_fg, m_fr), m_ls), Rat(3, 1))
            clamped == IF Lt(mean, Rat(5, 10)) THEN Rat(5, 10)
                       ELSE IF Gt(mean, Rat(15, 10)) THEN Rat(15, 10)
                       ELSE mean
        IN  /\ probe.result = clamped
            /\ Le(Rat(5, 10), probe.result)
            /\ Le(probe.result, Rat(15, 10))
            /\ (sentiment.fear_greed = None /\ sentiment.funding_rate = None
                  /\ sentiment.ls_ratio = None) => probe.result = One

C25_Witness ==
    /\ Called
    /\ probe.args.sentiment.fear_greed = None
    /\ probe.args.sentiment.funding_rate = Rat(6, 100)
    /\ probe.args.sentiment.ls_ratio = Rat(25, 10)
    /\ probe.result = Rat(23, 30)

\* C26: validate_exit approves exactly the proposals whose exit fraction f
\* satisfies 0.25 <= f <= 1.0 (a missing fraction reads as 0); an approved
\* proposal is returned unmodified and a rejected one returns no proposal,
\* whatever the position, the adjustment ledger and the cooldown timer.
C26_ExitRange ==
    Called =>
        LET f == IF probe.args.decision.size_or_amount = None THEN Zero
                 ELSE probe.args.decision.size_or_amount
        IN  /\ probe.result.approved <=> (Le(Rat(25, 100), f) /\ Le(f, One))
            /\ probe.result.approved => probe.result.adjusted = probe.args.decision
            /\ ~probe.result.approved => probe.result.adjusted = None

C26_Witness ==
    /\ Called
    /\ probe.args.decision.size_or_amount = Rat(25, 100)
    /\ probe.args.todays_adjustments >= MAX_ADJUSTMENTS_PER_DAY
    /\ probe.args.now - probe.args.last_adjustment_time < COOLDOWN_SECONDS
    /\ probe.args.last_adjustment_time > 0
    /\ probe.result.approved

\* C27: the decision log is append-only across cycles and restarts: every call
\* of log_entry_decision, log_scale_decision, log_exit_decision or
\* log_recovery made in a step appends exactly one record, the array persisted
\* before the step is an unchanged prefix of the one persisted after it, and a
\* step without such a call (it logs at most a market analysis) leaves the
\* array as it was.
C27_Step ==
    /\ Len(decision_log') = Len(decision_log) + last_op'.log_calls
    /\ SubSeq(decision_log', 1, Len(decision_log)) = decision_log

C27_AppendOnly == [][C27_Step]_vars

\* C28: a call of get_sentiment_data made less than SENTIMENT_CACHE_TTL (300)
\* seconds after a fetch that stored a snapshot returns the stored snapshot
\* and makes no network request; a call made when the 300 seconds have passed
\* fetches anew and replaces the cache.
C28_CacheTtl ==
    (Called /\ probe.call = "get_sentiment_data" /\ probe.args.sentiment_cache.data # None) =>
        LET stored == probe.args.sentiment_cache
        IN  IF probe.args.now - stored.timestamp < SENTIMENT_CACHE_TTL
            THEN /\ probe.result.sentiment = stored.data
                 /\ probe.result.requests = 0
            ELSE /\ probe.result.requests > 0
                 /\ bot.sentiment_cache.timestamp >= probe.args.now

\* C30: a cycle in which the exchange confirmed an entry or scale-in fill ends
\* with the orchestrator's position reflecting that fill (a position is held,
\* total_position_size has grown by the filled size and, for a scale-in,
\* scale_in_count has advanced), also when the logger call of the cycle
\* raises, so that the same scale level is not ordered again.
C30_Step ==
    (last_op'.order # None /\ last_op'.order.side = "BUY") =>
        /\ bot'.position # None
        /\ bot'.total_position_size = Add(bot.total_position_size, last_op'.order.size)
        /\ bot.position # None => bot'.scale_in_count > bot.scale_in_count

C30_FillReflected == [][C30_Step]_vars

\* C29: an entry is executed only in a cycle that starts with no position.  In
\* every step whose outcome is one of enter_position's (the order placed or
\* not, logged or not), or that counts a new entry, the orchestrator held no
\* position before the step; and a counted entry leaves exactly the position
\* it opened, with no scale-in yet.
C29_Step ==
    /\ (/\ count'.steps > count.steps
        /\ last_op'.op \in { "entry", "entry_unlogged", "entry_failed", "entry_blocked",
                             "entry_rejected" }) => bot.position = None
    /\ count'.entries > count.entries =>
           /\ bot.position = None
           /\ bot'.position # None
           /\ bot'.scale_in_count = 0
           /\ bot'.total_position_size = bot'.position.size

C29_EntryOnlyWhenFlat == [][C29_Step]_vars

\* A second entry has been executed, after the first position was closed.
C29_Witness ==
    /\ last_op.op = "entry"
    /\ count.entries >= 2
    /\ count.exits >= 1
    /\ bot.position # None

\* C31: in one run_cycle at most one of entry, scale-in and exit acts on the
\* position.  A cycle counts at most one exit and at most one entry, never
\* both; a cycle that ends in check_scale_in's order (filled, logged or not)
\* or in its refusal has taken no exit and no entry, and a cycle that scaled
\* in has sold nothing: the size it leaves is the size before plus the order.
C31_Step ==
    LET exited == count'.exits > count.exits
        entered == count'.entries > count.entries
        scale_tried == /\ count'.steps > count.steps
                       /\ last_op'.op \in { "scale_in", "scale_unlogged", "scale_raised",
                                            "scale_failed", "scale_blocked" }
    IN  /\ count'.exits <= count.exits + 1
        /\ count'.entries <= count.entries + 1
        /\ ~(exited /\ entered)
        /\ scale_tried => ~exited /\ ~entered
        /\ (count'.steps > count.steps /\ last_op'.op = "scale_in") =>
               /\ last_op'.order.side = "BUY"
               /\ bot'.total_position_size =
                      Add(bot.total_position_size, last_op'.order.size)

C31_OneMutationPerCycle == [][C31_Step]_vars

\* A cycle has just scaled in, after check_exit took no exit in it, in a run
\* where an earlier cycle did take one.
C31_Witness ==
    /\ last_op.op = "scale_in"
    /\ count.exits >= 1
    /\ bot.position # None

\* C32: scale_in_count is at most the number of SCALE_LEVELS, and while one
\* position lives without a restart it never decreases.  An executed scale-in
\* raises it by exactly 1 and fills the next level in order (the leverage
\* it leaves is that level's); every other cycle
\* on the position, a scale-in refused at the exchange included, leaves it
\* unchanged.
C32_Step ==
    LET same_life == /\ bot.position # None
                     /\ count'.restarts = count.restarts
                     /\ count'.entries = count.entries
        scaled == count'.steps > count.steps /\ last_op'.op = "scale_in"
    IN  /\ bot'.scale_in_count \in 0 .. Len(SCALE_LEVELS)
        /\ scaled =>
               /\ same_life
               /\ bot'.scale_in_count = bot.scale_in_count + 1
               /\ bot'.current_leverage = SCALE_LEVELS[bot.scale_in_count + 1].leverage
        /\ (same_life /\ ~scaled) => bot'.scale_in_count = bot.scale_in_count

C33_Step ==
    /\ (bot.position # None /\ bot'.position = None /\ count'.restarts = count.restarts) =>
           ~bot'.fib_partial_exit_taken
    /\ count'.entries > count.entries => ~bot'.fib_partial_exit_taken
    /\ (count'.steps > count.steps /\ last_op'.op = "rejection_exit") =>
           last_op.op # "entry"

C33_FlagsCleared == [][C33_Step]_vars

\* C34: during the life of one position each profit-target level triggers at
\* most one 25% partial exit.  check_exit always takes the lowest target the
\* gain has reached, so a target exit that has just been taken was the first
\* level's: in the state it leaves, a further cycle at any price whose gain is
\* at or above the first target and below the second takes no target exit.
C34_TargetOnce ==
    (last_op.op = "target_exit" /\ bot.position # None) =>
        \A current_price \in Prices, sentiment \in Sentiments :
            LET gain == Div(Sub(current_price, bot.position.average_price),
                            bot.position.average_price)
                adjusted_targets == calculate_exit_targets(sentiment)
            IN  (/\ Ge(gain, adjusted_targets[1].gain)
                 /\ Lt(gain, adjusted_targets[2].gain)) =>
                    run_cycle_manage(State, current_price, sentiment, NotAsked, "ok").op
                        # "target_exit"

\* C35: highest_price_seen is the maximum price observed while the current
\* position has been open.  It is reset when a position is opened or closed:
\* a cycle that leaves the orchestrator flat leaves the mark at 0, and right
\* after an entry the mark is not above the entry price, so no high of an
\* earlier position is carried into the trailing stop of the new one (the
\* first cycle after an entry, whose price is the only one seen so far,
\* never takes the trailing exit).
C35_Step ==
    /\ (bot.position # None /\ bot'.position = None /\ count'.restarts = count.restarts) =>
           bot'.highest_price_seen = Zero
    /\ count'.entries > count.entries =>
           Le(bot'.highest_price_seen, bot'.position.entry_price)
    /\ (count'.steps > count.steps /\ last_op'.op = "trailing_exit") => last_op.op # "entry"

C35_HighWaterMark == [][C35_Step]_vars

\* C36: whenever a position exists, the size and leverage fields of the
\* position record (what the advisor and the SafetyValidator are handed)
\* equal the orchestrator's total_position_size and current_leverage.
C36_RecordInSync ==
    bot.position # None =>
        /\ bot.position.size = bot.total_position_size
        /\ bot.position.leverage = bot.current_leverage

\* C37: the current notional that validate_entry compares against
\* MAX_TOTAL_NOTIONAL is position.size x position.leverage, and 0 when there
\* is no position; two positions that differ only in size give different
\* notionals.
C37_NotionalIsSizeTimesLeverage ==
    (Called /\ probe.call = "validate_entry") =>
        LET current_position == probe.args.current_position
        IN  /\ _calculate_current_notional(current_position) =
                   IF current_position = None THEN Zero
                   ELSE Mul(current_position.size, current_position.leverage)
            /\ \A other \in ProbePositions :
                   (/\ current_position # None
                    /\ other.size # current_position.size
                    /\ other.leverage = current_position.leverage) =>
                       _calculate_current_notional(other) #
                           _calculate_current_notional(current_position)

\* C38: recover_position never raises because of the persisted state file.
\* With a position at the venue and a state file that is missing, cannot be
\* parsed, or lacks 'timestamp' or 'position', it returns the position built
\* from the exchange data alone: average_price is the exchange entry price and
\* scale_in_count is 0.
C38_RecoveryTolerant ==
    (Called /\ probe.call = "recover_position") =>
        LET file == probe.args.state_file
            live_position == IF probe.args.api = "ok" THEN probe.args.exchange.position
                             ELSE None
            unusable == \/ file = None
                        \/ ~file.readable
                        \/ file.timestamp = None
                        \/ file.position = None
        IN  /\ ~probe.result.raised
            /\ (live_position # None /\ unusable) =>
                   /\ probe.result.ret.has_position
                   /\ probe.result.ret.position.average_price = live_position.entry_price
                   /\ probe.result.ret.position.scale_in_count = <<0>>

\* C39: a successful partial exit of fraction f, 0 < f < 1, takes the
\* orchestrator's size from s to s x (1 - f) and leaves average_price,
\* current_leverage, scale_in_count and last_entry_price unchanged; a
\* successful exit of fraction 1, by whichever path (the exit at the Fibonacci
\* resistance with the whole position approved, the rejection, the trailing
\* stop, the invalidation), leaves no position and size 0.
C39_Step ==
    LET done == count'.steps > count.steps
        op == last_op'.op
        f == IF op = "fib_exit" THEN last_op'.approval.size ELSE Rat(25, 100)
        full == \/ op \in { "rejection_exit", "trailing_exit", "invalidation_exit" }
                \/ op = "fib_exit" /\ f = One
        partial == op \in { "fib_exit", "target_exit" } /\ Lt(f, One)
    IN  /\ (done /\ partial) =>
               /\ bot'.position # None
               /\ bot'.total_position_size = Mul(bot.total_position_size, Sub(One, f))
               /\ bot'.position.average_price = bot.position.average_price
               /\ bot'.current_leverage = bot.current_leverage
               /\ bot'.scale_in_count = bot.scale_in_count
               /\ bot'.last_entry_price = bot.last_entry_price
        /\ (done /\ full) =>
               /\ bot'.position = None
               /\ bot'.total_position_size = Zero

C39_ExitFrame == [][C39_Step]_vars

\* C40: every snapshot get_sentiment_data returns, fetched or served from the
\* cache, holds all three fields fear_greed, funding_rate and ls_ratio (a
\* neutral default standing in for a reading that failed or came back
\* without data), so that check_entry_conditions can index each of them.
C40_SnapshotComplete ==
    (Called /\ probe.call = "get_sentiment_data") =>
        /\ probe.result.sentiment.fear_greed # None
        /\ probe.result.sentiment.funding_rate # None
        /\ probe.result.sentiment.ls_ratio # None

====
